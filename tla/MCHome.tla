------------------------------- MODULE MCHome -------------------------------
(***************************************************************************)
(* The home directory and the credentials of one profile in it.  Listing   *)
(* looks at every small home, settings at homes of whole profiles; "part"  *)
(* says which of the three a behaviour is about.                           *)
(***************************************************************************)
EXTENDS IdentityStore, Naturals, Sequences, TLC

CONSTANTS
    Entries, Default, Spliced, Size, Strict, Editor, Resolver, None, NoDefault, Broken

VARIABLES
    part,
    home, file, editor, wanted, resolver, found, expected, disturbed, before, trusted, chosen

homeVars == <<home, file, editor, wanted, resolver, found, expected, disturbed, before,
              trusted, chosen>>

\* alice.pilot is also there in capitals and under its full name; two defaults
\* whose lines differ in length, and a splice of them, share a wildcard.
Dir3(star, parts) == [star |-> star, parts |-> parts, tilde |-> FALSE]

MCEntries ==
    {Dir3(FALSE, <<"alice", "pilot">>), Dir3(FALSE, <<"ALICE", "pilot">>),
     Dir3(FALSE, <<"alice", "pilot", "dhttp.net">>), Dir3(FALSE, <<"bob", "pilot">>),
     Dir3(TRUE, <<"pilot">>)}

MCDefault == {Dir3(FALSE, <<l, "pilot", "dhttp.net">>) : l \in {"alice", "bob"}}

MCSpliced == {Dir3(FALSE, <<"bobce", "pilot", "dhttp.net">>)}

MCSize == [l \in {"alice", "bob"} |-> IF l = "alice" THEN 3 ELSE 2]

-----------------------------------------------------------------------------
Home == INSTANCE HomeDirectory

\* A default identity is a DhttpName, which is normal; its line is not empty.
ASSUME HomeAssumption ==
    /\ Entries \cup Default \cup Spliced \subseteq [star : BOOLEAN, parts : Seq(STRING), tilde : BOOLEAN]
    /\ \A n \in Default : Size[n.parts[1]] \in Nat \ {0}
    /\ \A n \in Default \cup Spliced : /\ Home!NormalizeProfileName(n) = n
                                     /\ \A d \in Entries : Home!Profile(d, n) # None
    /\ {None, NoDefault, Broken} \cap (Default \cup Spliced) = {}
    /\ None # <<>> /\ None # NoDefault /\ None # Broken

\* The settings part needs only directories that names resolve to.
EmptyOrWhole == {[kind |-> k, ssl |-> k] : k \in {"missing", "dir"}}

MCInit ==
    \/ /\ part = "store"
       /\ home = [d \in Entries |-> [kind |-> "dir", ssl |-> "dir"]] /\ file = None
       /\ Init /\ Home!Init
    \/ /\ part = "listing"
       /\ file = None /\ ssl = Nothing
       /\ Init /\ Home!Init
    \/ /\ part = "settings"
       /\ home \in [Entries -> EmptyOrWhole] /\ ssl = Nothing
       /\ \A d \in Entries : d # Home!DirName(d) => home[d].kind = "missing"
       /\ Init /\ Home!Init

MCNext ==
    /\ UNCHANGED part
    /\ \/ part = "store" /\ Next /\ UNCHANGED homeVars
       \/ part = "settings" /\ Home!Next /\ UNCHANGED vars

\* The calls of save_identity are alike, and so are the writers of the settings.
MCSymmetry == Permutations(Saver) \cup Permutations(Editor)

MCSpec == MCInit /\ [][MCNext]_<<vars, part, homeVars>>

-----------------------------------------------------------------------------
\* The default identity that was saved is the one that is resolved: it is read back
\* unless a save overlapped or died, and a resolution at any time works with a name
\* that somebody chose unless saves overlapped and one stopped partway, falling back
\* to the wildcard only if the exact profile was missing (settings.rs save, ssl.rs,
\* management.rs).
DefaultIdentityHolds == Home!SettingsSurvive /\ Home!ResolvedIsChosen

\* The ways to find a profile agree (identity.rs, ssl.rs, management.rs).
ListingsAgree == part = "listing" => Home!ListingsAgree

=============================================================================
