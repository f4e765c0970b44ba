--------------------------- MODULE HomeDirectory ----------------------------
(***************************************************************************)
(* The DHTTP home: names of identities and of their directories            *)
(* (home/src/dhttp_home.rs, home/src/identity.rs), the ways to list and to *)
(* resolve profiles (identity.rs, identity/ssl.rs, identity/management.rs) *)
(* and the settings file with the default identity (identity/settings.rs). *)
(*                                                                         *)
(* Processes share the directory without a lock.  The settings are written *)
(* in place: opening truncates the file, writing starts at its beginning,  *)
(* and a process may die in between or after a part.                       *)
(***************************************************************************)
EXTENDS SequencesExt, Naturals

CONSTANTS
    Entries,    \* directory names that may exist in the home
    Default,    \* inputs a default identity may be set to
    Spliced,    \* names that come about when saves write over each other
    Size,       \* length of the settings' line for each label
    Editor,     \* processes that set the default identity
    Resolver,   \* calls of resolve_default_identity_profile
    Strict,     \* names that dhttp_identity's DhttpName accepts
    None, NoDefault, Broken

-----------------------------------------------------------------------------
\* Names.  A name is a sequence of labels, with "dhttp.net" as one of them; star
\* stands for a leading "*." and tilde for a trailing "~".

Suffix == "dhttp.net"
Lower(label) == IF label = "ALICE" THEN "alice" ELSE label
ValidLabel(label) == label \notin {"", "-"}
Name(star, parts) == [star |-> star, parts |-> parts, tilde |-> FALSE]

\* The parts of normalize_name's result, or None.
NormalizeName(name) ==
    LET parts == [i \in DOMAIN name.parts |-> Lower(name.parts[i])]
        full == IF ~name.tilde /\ Len(parts) >= 2 /\ Last(parts) = Suffix
                THEN parts ELSE Append(parts, Suffix)
    IN  IF parts # <<>> /\ \A i \in DOMAIN parts : ValidLabel(parts[i]) THEN full ELSE None

NormalizeProfileName(name) ==
    LET full == NormalizeName(name)
    IN  IF full = None THEN None ELSE Name(name.star, full)

\* DhttpHome::join_identity_name, of a name that normalizes.
DirName(name) ==
    LET full == NormalizeProfileName(name) IN Name(full.star, Front(full.parts))

Profile(dir, name) == [dir |-> dir, name |-> name]

-----------------------------------------------------------------------------
VARIABLES
    home,       \* for each name: what is in the home under it, and its ssl entry
    file,       \* contents of settings.toml, or None
    editor, wanted,     \* progress of each save; the name it saves
    resolver, found,    \* progress of each resolution; the name or profile found
    expected,   \* history: what the file holds once the save that emptied it last is done
    disturbed,  \* history: whether saves overlapped with that one, or one stopped
    before,     \* history: what each resolver could find when it began
    trusted,    \* history: whether it read a file that was not spliced
    chosen      \* history: names that were handed to a save

vars == <<home, file, editor, wanted, resolver, found, expected, disturbed, before, trusted,
          chosen>>

Kind == {"missing", "file", "link", "dir"}

\* An entry of the home and the ssl entry in it.
Node == {n \in [kind : Kind, ssl : Kind] : n.kind \in {"missing", "file"} => n.ssl = "missing"}

-----------------------------------------------------------------------------
\* Listing.

Exists(dir) == dir \in Entries /\ home[dir].kind # "missing"

\* Mutant: directories under another spelling of the name are listed too.
ListedAnySpelling(dir) ==
    /\ home[dir].kind = "dir" /\ home[dir].ssl = "dir"
    /\ NormalizeProfileName(dir) # None

\* discover_identity_profiles and identity_profile_names skip symbolic links and
\* directories that are not spelled as join_identity_name would.
Listed(dir) ==
    /\ home[dir].kind = "dir" /\ home[dir].ssl = "dir"
    /\ NormalizeProfileName(dir) # None
    /\ dir = DirName(dir)

Discovered == {Profile(dir, NormalizeProfileName(dir)) : dir \in {d \in Entries : Listed(d)}}

\* identity_profile_candidates follows links and reports the rest as errors.
Candidates ==
    {Profile(dir, NormalizeProfileName(dir)) : dir \in
        {d \in Entries : /\ home[d].kind \in {"dir", "link"}
                         /\ NormalizeProfileName(d) \in Strict
                         /\ home[d].ssl \in {"dir", "link"}}}

-----------------------------------------------------------------------------
\* Resolving.

ResolveExactly(name) ==
    LET full == NormalizeProfileName(name)
    IN  IF full # None /\ Exists(DirName(full)) THEN Profile(DirName(full), full) ELSE None

Wildcard(name) ==
    LET full == NormalizeProfileName(name)
    IN  IF full.star THEN full ELSE Name(TRUE, Tail(full.parts))

ResolveWildcard(name) ==
    IF NormalizeProfileName(name) = None THEN None
    ELSE LET wild == Wildcard(name)
         IN  IF Exists(DirName(wild)) THEN Profile(DirName(wild), wild) ELSE None

-----------------------------------------------------------------------------
\* The settings file: the section's header, then one line with the name.

Header == <<None, 0>>
Text(name) == <<Header>> \o [i \in 1 .. Size[name.parts[1]] |-> <<name, i>>]

Whole(text) == {n \in Default : text = Text(n)}

\* Of these names the text has a beginning, or all and what another save left behind.
Begun(text) ==
    {n \in Default : \A i \in DOMAIN text \cap DOMAIN Text(n) : text[i] = Text(n)[i]}

\* What toml::from_str may make of a text.  No section or no name is no default.  A
\* name that is cut off, or followed by the rest of another line, is an error unless
\* only the line's end is missing or left over.  A line with the beginning of one
\* name and the end of another is a name if DhttpName accepts it.
Parses(text) ==
    IF text \in {<<>>, <<Header>>} THEN {NoDefault}
    ELSE IF Whole(text) # {} THEN Whole(text)
    ELSE {Broken} \cup (IF Begun(text) # {} THEN Begun(text) ELSE Default \cup Spliced)

Writing(e) == editor[e] = "opened"

TypeOK ==
    /\ home \in [Entries -> Node]
    /\ editor \in [Editor -> {"idle", "open", "opened", "ok", "err", "dead"}]
    /\ resolver \in [Resolver -> {"idle", "exact", "wildcard", "found", "err"}]
    /\ disturbed \subseteq {"overlap", "stop"}
    /\ trusted \in [Resolver -> BOOLEAN]
    /\ chosen \subseteq Default

Init ==
    /\ home \in [Entries -> Node]
    /\ file \in {None, <<>>} \cup {Text(n) : n \in Default}
    /\ editor = [e \in Editor |-> "idle"]
    /\ wanted = [e \in Editor |-> None]
    /\ resolver = [r \in Resolver |-> "idle"]
    /\ found = [r \in Resolver |-> None]
    /\ before = [r \in Resolver |-> {}]
    /\ IF file = None THEN expected = None ELSE expected \in Parses(file)
    /\ disturbed = {}
    /\ trusted = [r \in Resolver |-> TRUE]
    /\ chosen = {n \in Default : file = Text(n)}

\* new_settings or load_settings, then set_default_identity_name.
Choose(e, n) ==
    /\ editor[e] = "idle"
    /\ editor' = [editor EXCEPT ![e] = "open"]
    /\ wanted' = [wanted EXCEPT ![e] = n]
    /\ chosen' = chosen \cup {n}
    /\ UNCHANGED <<home, file, resolver, found, expected, disturbed, before, trusted>>

\* Mutant: the file is opened as it is.
OpenInPlace(e) ==
    /\ editor[e] = "open"
    /\ editor' = [editor EXCEPT ![e] = "opened"]
    /\ file' = IF file = None THEN <<>> ELSE file
    /\ expected' = wanted[e]
    /\ disturbed' = IF \E o \in Editor : Writing(o) THEN disturbed \cup {"overlap"} ELSE {}
    /\ UNCHANGED <<home, wanted, resolver, found, before, trusted, chosen>>

\* fs::write: the file is created or truncated ...
Open(e) ==
    /\ editor[e] = "open"
    /\ editor' = [editor EXCEPT ![e] = "opened"]
    /\ file' = <<>>
    /\ expected' = wanted[e]
    /\ disturbed' = IF \E o \in Editor : Writing(o) THEN disturbed \cup {"overlap"} ELSE {}
    /\ UNCHANGED <<home, wanted, resolver, found, before, trusted, chosen>>

\* ... and written from its beginning, over what another one has written.
Overwrite(text) == text \o SubSeq(file, Len(text) + 1, Len(file))

Write(e) ==
    /\ editor[e] = "opened"
    /\ editor' = [editor EXCEPT ![e] = "ok"]
    /\ file' = Overwrite(Text(wanted[e]))
    /\ UNCHANGED <<home, wanted, resolver, found, expected, disturbed, before, trusted,
                   chosen>>

\* The write fails or the process dies, perhaps after a part.
WriteStops(e) ==
    /\ editor[e] = "opened"
    /\ editor' \in {[editor EXCEPT ![e] = "err"], [editor EXCEPT ![e] = "dead"]}
    /\ \E k \in 0 .. Len(Text(wanted[e])) - 1 :
          file' = Overwrite(SubSeq(Text(wanted[e]), 1, k))
    /\ disturbed' = disturbed \cup {"stop"}
    /\ UNCHANGED <<home, wanted, resolver, found, expected, before, trusted, chosen>>

-----------------------------------------------------------------------------
\* DhttpHome::resolve_default_identity_profile; a missing or broken file and a
\* missing default are errors.

LoadSettings(r) ==
    /\ resolver[r] = "idle"
    /\ \E name \in IF file = None THEN {Broken} ELSE Parses(file) :
          IF name \in {Broken, NoDefault}
          THEN resolver' = [resolver EXCEPT ![r] = "err"] /\ UNCHANGED found
          ELSE /\ resolver' = [resolver EXCEPT ![r] = "exact"]
               /\ found' = [found EXCEPT ![r] = name]
    /\ before' = [before EXCEPT ![r] = {d \in Entries : Exists(d)}]
    /\ trusted' = [trusted EXCEPT ![r] = disturbed # {"overlap", "stop"}]
    /\ UNCHANGED <<home, file, editor, wanted, expected, disturbed, chosen>>

TryExact(r) ==
    /\ resolver[r] = "exact"
    /\ LET profile == ResolveExactly(found[r])
       IN  /\ resolver' = [resolver EXCEPT ![r] = IF profile = None THEN "wildcard" ELSE "found"]
           /\ found' = [found EXCEPT ![r] = IF profile = None THEN @ ELSE profile]
    /\ UNCHANGED <<home, file, editor, wanted, expected, disturbed, before, trusted, chosen>>

TryWildcard(r) ==
    /\ resolver[r] = "wildcard"
    /\ LET profile == ResolveWildcard(found[r])
       IN  /\ resolver' = [resolver EXCEPT ![r] = IF profile = None THEN "err" ELSE "found"]
           /\ found' = [found EXCEPT ![r] = IF profile = None THEN @ ELSE profile]
    /\ UNCHANGED <<home, file, editor, wanted, expected, disturbed, before, trusted, chosen>>

\* save_identity makes the profile's directory.
CreateProfile(name) ==
    LET dir == DirName(name) IN
    /\ dir \in Entries /\ ~Exists(dir)
    /\ home' = [home EXCEPT ![dir] = [kind |-> "dir", ssl |-> "missing"]]
    /\ UNCHANGED <<file, editor, wanted, resolver, found, expected, disturbed, before, trusted,
                   chosen>>

Next ==
    \/ \E e \in Editor : (\E n \in Default : Choose(e, n)) \/ Open(e) \/ Write(e) \/ WriteStops(e)
    \/ \E r \in Resolver : LoadSettings(r) \/ TryExact(r) \/ TryWildcard(r)
    \/ \E n \in Default : CreateProfile(n)

Spec == Init /\ [][Next]_vars

-----------------------------------------------------------------------------
\* Properties.

\* The settings a save has written are read back, unless another save overlapped
\* with it or a process died while it wrote (settings.rs save: fs::write).
SettingsSurvive ==
    expected # None /\ disturbed = {} /\ (\A e \in Editor : ~Writing(e)) =>
        Parses(file) = {expected}

\* A resolution works with a name that somebody chose, even while saves are under
\* way, overlap or stop partway; only where saves overlapped and one of them stopped
\* may it be spliced from two.  Either way it falls back to the wildcard only if the
\* exact profile was missing when it began (ssl.rs resolve_identity_profile,
\* management.rs resolve_default_identity_profile).
Readable(r) == IF trusted[r] THEN chosen ELSE Default \cup Spliced

ResolvedIsChosen ==
    \A r \in Resolver :
        /\ resolver[r] \in {"exact", "wildcard"} => found[r] \in Readable(r)
        /\ resolver[r] = "found" =>
             \E n \in Readable(r) :
                \/ found[r].name = n
                \/ found[r].name = Wildcard(n) /\ DirName(n) \notin before[r]

\* The ways to find a profile agree: each listed directory is where its name
\* resolves to and gives its name back, no name is listed twice, and the
\* candidates contain it (identity.rs discover_identity_profiles, ssl.rs).
ListingsAgree ==
    \A p \in Discovered :
        /\ ResolveExactly(p.name) = p
        /\ NormalizeProfileName(p.dir) = p.name
        /\ \A q \in Discovered : q.name = p.name => q = p
        /\ p.name \in Strict => p \in Candidates

=============================================================================
