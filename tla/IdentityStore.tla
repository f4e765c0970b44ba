--------------------------- MODULE IdentityStore ----------------------------
(***************************************************************************)
(* The credential directory of one identity profile:                       *)
(* IdentityProfile::save_identity (home/src/identity/management.rs), the   *)
(* OCSP cache of home/src/ocsp.rs, and the loads of dhttp/src/endpoint.rs  *)
(* and load_identity, which read one file after the other.                 *)
(*                                                                         *)
(* Several processes may save and load at once.  No lock protects the      *)
(* directory: everything rests on renames.  Any file operation may fail,   *)
(* and a process may die between any two of them.  Material is abstracted  *)
(* to its generation: the save that wrote it, or Old.                      *)
(***************************************************************************)
CONSTANTS
    Saver,      \* calls of save_identity
    Loader,     \* calls of Endpoint::load_from_with_ocsp, load, load_from, load_identity
    Old,        \* the material present at the start
    Nothing     \* a missing file or directory

Gen == Saver \cup {Old}
File == Gen \cup {Nothing}
Dir == [cert : File, key : File, ocsp : File]
Empty == [cert |-> Nothing, key |-> Nothing, ocsp |-> Nothing]

ASSUME StoreAssumption ==
    /\ Old \notin Saver
    /\ Nothing \notin Gen \cup Dir

VARIABLES
    ssl,            \* the directory in use, or Nothing
    stage, backup,  \* the stage and backup directory of each save, or Nothing
    saver,      \* progress of each save
    hadOld,     \* its had_old_material
    loader,     \* progress of each load
    certs,      \* the certificate chain it works with
    temp,       \* where its temporary file is: a directory, by the generation of its key
    key, staple,    \* the private key and the OCSP response it has read
    committed,  \* history: generations that were installed as ssl
    replaced    \* history: generations that a successful save has replaced

files == <<ssl, stage, backup>>
saving == <<saver, hadOld>>
read == <<certs, key, staple>>
loading == <<loader, temp, read>>
history == <<committed, replaced>>
vars == <<files, saving, loading, history>>

SaverDone == {"ok", "err", "dead"}
LoaderDone == {"endpoint", "identity", "err", "dead"}

TypeOK ==
    /\ ssl \in Dir \cup {Nothing}
    /\ stage \in [Saver -> Dir \cup {Nothing}]
    /\ backup \in [Saver -> Dir \cup {Nothing}]
    /\ saver \in [Saver -> {"idle", "cert", "key", "check", "preserve", "install",
                            "rollback", "discard", "clean"} \cup SaverDone]
    /\ hadOld \in [Saver -> BOOLEAN]
    /\ loader \in [Loader -> {"idle", "cached", "fetch", "temp", "persist", "fresh",
                              "meta", "key", "ocsp", "build"} \cup LoaderDone]
    /\ certs \in [Loader -> File]
    /\ key \in [Loader -> File]
    /\ staple \in [Loader -> File]
    /\ temp \in [Loader -> File]
    /\ committed \subseteq Gen
    /\ replaced \subseteq Gen

Init ==
    /\ ssl \in {Nothing, Empty, [cert |-> Old, key |-> Old, ocsp |-> Nothing]}
    /\ stage = [s \in Saver |-> Nothing]
    /\ backup = [s \in Saver |-> Nothing]
    /\ saver = [s \in Saver |-> "idle"]
    /\ hadOld = [s \in Saver |-> FALSE]
    /\ loader = [r \in Loader |-> "idle"]
    /\ certs = [r \in Loader |-> Nothing]
    /\ temp = [r \in Loader |-> Nothing]
    /\ key = [r \in Loader |-> Nothing]
    /\ staple = [r \in Loader |-> Nothing]
    /\ committed = IF ssl \in {Nothing, Empty} THEN {} ELSE {Old}
    /\ replaced = {}

-----------------------------------------------------------------------------
\* A directory can be renamed onto ssl while there is none, or an empty one.
\* (A temporary staple in it would make the rename fail; failing is always
\* possible below, so the model only has more behaviours.)
MayBecomeSsl(dir) == dir # Nothing /\ ssl \in {Nothing, Empty}

Go(s, next) == saver' = [saver EXCEPT ![s] = next]

\* IdentityProfile::save_identity_transaction, one file operation at a time.

CreateStage(s) ==
    /\ saver[s] = "idle"
    /\ \/ Go(s, "err") /\ UNCHANGED stage
       \/ Go(s, "cert") /\ stage' = [stage EXCEPT ![s] = Empty]
    /\ UNCHANGED <<ssl, backup, hadOld, loading, history>>

WriteCert(s) ==
    /\ saver[s] = "cert"
    /\ \/ Go(s, "discard") /\ UNCHANGED stage
       \/ Go(s, "key") /\ stage' = [stage EXCEPT ![s].cert = s]
    /\ UNCHANGED <<ssl, backup, hadOld, loading, history>>

WriteKey(s) ==
    /\ saver[s] = "key"
    /\ \/ Go(s, "discard") /\ UNCHANGED stage
       \/ Go(s, "check") /\ stage' = [stage EXCEPT ![s].key = s]
    /\ UNCHANGED <<ssl, backup, hadOld, loading, history>>

CheckOld(s) ==
    /\ saver[s] = "check"
    /\ \/ Go(s, "discard") /\ UNCHANGED hadOld
       \/ /\ hadOld' = [hadOld EXCEPT ![s] = ssl # Nothing]
          /\ Go(s, IF ssl # Nothing THEN "preserve" ELSE "install")
    /\ UNCHANGED <<files, loading, history>>

\* Mutant: the old directory is removed instead of renamed away.
PreserveOldRemoves(s) ==
    /\ saver[s] = "preserve"
    /\ \/ Go(s, "discard") /\ UNCHANGED <<ssl, backup>>
       \/ /\ ssl # Nothing
          /\ Go(s, "install")
          /\ backup' = [backup EXCEPT ![s] = Empty]
          /\ ssl' = Nothing
    /\ UNCHANGED <<stage, hadOld, loading, history>>

PreserveOld(s) ==
    /\ saver[s] = "preserve"
    /\ \/ Go(s, "discard") /\ UNCHANGED <<ssl, backup>>
       \/ /\ ssl # Nothing
          /\ Go(s, "install")
          /\ backup' = [backup EXCEPT ![s] = ssl]
          /\ ssl' = Nothing
    /\ UNCHANGED <<stage, hadOld, loading, history>>

Install(s) ==
    /\ saver[s] = "install"
    /\ \/ /\ MayBecomeSsl(stage[s])
          /\ ssl' = stage[s]
          /\ stage' = [stage EXCEPT ![s] = Nothing]
          /\ Go(s, IF hadOld[s] THEN "clean" ELSE "ok")
          /\ committed' = committed \cup {s}
          /\ replaced' = replaced \cup {g \in Gen : hadOld[s] /\ backup[s].cert = g}
       \/ /\ Go(s, IF hadOld[s] THEN "rollback" ELSE "discard")
          /\ UNCHANGED <<ssl, stage, history>>
    /\ UNCHANGED <<backup, hadOld, loading>>

\* Restoring may fail too; the backup then stays where it is.
RollBack(s) ==
    /\ saver[s] = "rollback"
    /\ Go(s, "discard")
    /\ \/ /\ MayBecomeSsl(backup[s])
          /\ ssl' = backup[s]
          /\ backup' = [backup EXCEPT ![s] = Nothing]
       \/ UNCHANGED <<ssl, backup>>
    /\ UNCHANGED <<stage, hadOld, loading, history>>

\* Best effort; the failure that led here is reported.
DiscardStage(s) ==
    /\ saver[s] = "discard"
    /\ Go(s, "err")
    /\ stage' \in {stage, [stage EXCEPT ![s] = Nothing]}
    /\ UNCHANGED <<ssl, backup, hadOld, loading, history>>

\* Mutant: a failed housekeeping step is reported as a failed save.
RemoveBackupReported(s) ==
    /\ saver[s] = "clean"
    /\ \/ Go(s, "ok") /\ backup' = [backup EXCEPT ![s] = Nothing]
       \/ Go(s, "err") /\ UNCHANGED backup
    /\ UNCHANGED <<ssl, stage, hadOld, loading, history>>

\* Best effort; success is reported whatever happens.
RemoveBackup(s) ==
    /\ saver[s] = "clean"
    /\ Go(s, "ok")
    /\ backup' \in {backup, [backup EXCEPT ![s] = Nothing]}
    /\ UNCHANGED <<ssl, stage, hadOld, loading, history>>

\* The process dies, or the future is dropped.
SaverDies(s) ==
    /\ saver[s] \notin SaverDone \cup {"idle"}
    /\ Go(s, "dead")
    /\ UNCHANGED <<files, hadOld, loading, history>>

-----------------------------------------------------------------------------
\* Endpoint::load_from_with_ocsp up to the reload, and ocsp::load_or_refresh.

Move(r, next) == loader' = [loader EXCEPT ![r] = next]

Has(file) == ssl # Nothing /\ ssl[file] # Nothing

LoadCerts(r) ==
    /\ loader[r] = "idle"
    /\ \/ Move(r, "err") /\ UNCHANGED certs
       \/ /\ Has("cert")
          /\ Move(r, "cached")
          /\ certs' = [certs EXCEPT ![r] = ssl.cert]
    /\ UNCHANGED <<files, saving, temp, key, staple, history>>

\* A cached staple that is valid for the chain is used, unless it has expired.
CheckCached(r) ==
    /\ loader[r] = "cached"
    /\ \/ /\ ssl # Nothing /\ ssl.ocsp = certs[r]
          /\ Move(r, "fresh")
       \/ Move(r, "fetch")
    /\ UNCHANGED <<files, saving, temp, read, history>>

\* The responder answers with a staple that validates, or the refresh fails.
FetchOcsp(r) ==
    /\ loader[r] = "fetch"
    /\ Move(r, "temp") \/ Move(r, "err")
    /\ UNCHANGED <<files, saving, temp, read, history>>

WriteTemp(r) ==
    /\ loader[r] = "temp"
    /\ \/ /\ ssl # Nothing
          /\ Move(r, "persist")
          /\ temp' = [temp EXCEPT ![r] = ssl.key]
       \/ Move(r, "err") /\ UNCHANGED temp
    /\ UNCHANGED <<files, saving, read, history>>

\* The rename works only while the directory of the temporary file is ssl.
PersistOcsp(r) ==
    /\ loader[r] = "persist"
    /\ \/ /\ ssl # Nothing /\ ssl.key = temp[r]
          /\ ssl' = [ssl EXCEPT !.ocsp = certs[r]]
          /\ Move(r, "fresh")
       \/ Move(r, "err") /\ UNCHANGED ssl
    /\ UNCHANGED <<stage, backup, saving, temp, read, history>>

\* Endpoint::load_profile and IdentityProfile::load_identity.  Each await reads
\* the path anew.

ReadCerts(r) ==
    /\ loader[r] \in {"idle", "fresh"}
    /\ \/ Move(r, "err") /\ UNCHANGED certs
       \/ /\ Has("cert")
          /\ Move(r, "meta")
          /\ certs' = [certs EXCEPT ![r] = ssl.cert]
    /\ UNCHANGED <<files, saving, temp, key, staple, history>>

\* The key's permissions must be 0400.
CheckKey(r) ==
    /\ loader[r] = "meta"
    /\ Move(r, "err") \/ (Has("key") /\ Move(r, "key"))
    /\ UNCHANGED <<files, saving, temp, read, history>>

\* load_identity returns here.
ReadKey(r) ==
    /\ loader[r] = "key"
    /\ \/ Move(r, "err") /\ UNCHANGED key
       \/ /\ Has("key")
          /\ Move(r, "identity") \/ Move(r, "ocsp")
          /\ key' = [key EXCEPT ![r] = ssl.key]
    /\ UNCHANGED <<files, saving, temp, certs, staple, history>>

ReadOcsp(r) ==
    /\ loader[r] = "ocsp"
    /\ \/ Move(r, "err") /\ UNCHANGED staple
       \/ /\ Has("ocsp")
          /\ Move(r, "build")
          /\ staple' = [staple EXCEPT ![r] = ssl.ocsp]
    /\ UNCHANGED <<files, saving, temp, certs, key, history>>

\* Mutant: the key is taken as it is.
BuildUnchecked(r) ==
    /\ loader[r] = "build"
    /\ Move(r, "endpoint")
    /\ UNCHANGED <<files, saving, temp, read, history>>

\* qbase's Endpoint::new checks the key against the certificate, not the staple.
Build(r) ==
    /\ loader[r] = "build"
    /\ Move(r, IF key[r] = certs[r] THEN "endpoint" ELSE "err")
    /\ UNCHANGED <<files, saving, temp, read, history>>

LoaderDies(r) ==
    /\ loader[r] \notin LoaderDone \cup {"idle"}
    /\ Move(r, "dead")
    /\ UNCHANGED <<files, saving, temp, read, history>>

-----------------------------------------------------------------------------

Save(s) ==
    \/ CreateStage(s) \/ WriteCert(s) \/ WriteKey(s) \/ CheckOld(s) \/ PreserveOld(s)
    \/ Install(s) \/ RollBack(s) \/ DiscardStage(s) \/ RemoveBackup(s) \/ SaverDies(s)

Load(r) ==
    \/ LoadCerts(r) \/ CheckCached(r) \/ FetchOcsp(r) \/ WriteTemp(r) \/ PersistOcsp(r)
    \/ ReadCerts(r) \/ CheckKey(r) \/ ReadKey(r) \/ ReadOcsp(r) \/ Build(r)
    \/ LoaderDies(r)

Next == (\E s \in Saver : Save(s)) \/ (\E r \in Loader : Load(r))

Spec == Init /\ [][Next]_vars

-----------------------------------------------------------------------------
\* Properties.

\* An endpoint never works with a key that does not belong to its certificate,
\* although both are read at different times from a directory that saves replace
\* and roll back meanwhile; and both are from material that was installed whole,
\* never from a save in progress (endpoint.rs load_profile).
EndpointIsWhole ==
    \A r \in Loader : loader[r] = "endpoint" => certs[r] = key[r] /\ key[r] \in committed

\* Material that was once in use is destroyed only by a save that succeeded in
\* replacing it: after any failure or crash it is in ssl or in a backup.
NoMaterialDestroyed ==
    \A g \in committed \ replaced :
        \E d \in ({ssl} \cup {backup[s] : s \in Saver}) \ {Nothing} :
            d.cert = g /\ d.key = g

\* What save_identity reports agrees with what happened: success means that the
\* material was installed, failure that it never was (management.rs: a
\* housekeeping error must not contradict the observable state).
ResultIsTruthful ==
    \A s \in Saver :
        /\ saver[s] = "ok" => s \in committed
        /\ saver[s] = "err" => s \notin committed

=============================================================================
