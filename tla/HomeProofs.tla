----------------------------- MODULE HomeProofs -----------------------------
(***************************************************************************)
(* The credentials of a profile for any number of concurrent saves and     *)
(* loads: what an endpoint is built from, what becomes of material that    *)
(* was in use, and what save_identity reports.  The home directory for any *)
(* directory names, and the settings file for any number of writers and    *)
(* resolutions and lines of any length.                                    *)
(***************************************************************************)
EXTENDS MCHome, TLAPS

\* A directory that is or was ssl has a certificate and the key that belongs to it,
\* installed by one save, or neither.
Whole(d) ==
    d # Nothing => d.cert = d.key /\ d.key \in committed \cup {Nothing}

FilesInv == Whole(ssl) /\ \A s \in Saver : Whole(backup[s])

BeforeInstall == {"idle", "cert", "key", "check", "preserve", "install"}

\* What a save has staged and set aside when it comes to a step, and whether it has
\* been installed.
SaverInv ==
    \A s \in Saver :
        /\ saver[s] \in BeforeInstall \cup {"rollback", "discard", "err"} => s \notin committed
        /\ saver[s] \in {"clean", "ok"} => s \in committed
        /\ saver[s] = "cert" => stage[s] = Empty
        /\ saver[s] = "key" => stage[s] = [cert |-> s, key |-> Nothing, ocsp |-> Nothing]
        /\ saver[s] \in {"check", "preserve", "install"} =>
              stage[s] = [cert |-> s, key |-> s, ocsp |-> Nothing]
        /\ saver[s] \in BeforeInstall \ {"install"} => backup[s] = Nothing
        /\ saver[s] = "preserve" => hadOld[s]
        /\ saver[s] \in {"install", "rollback"} => (hadOld[s] <=> backup[s] # Nothing)
        /\ saver[s] = "clean" /\ backup[s] # Nothing => backup[s].cert \in replaced \cup {Nothing}

\* A key that was read had been installed.
LoaderInv ==
    \A r \in Loader :
        /\ loader[r] \in {"ocsp", "build", "endpoint"} => key[r] \in committed
        /\ loader[r] = "endpoint" => certs[r] = key[r]

IndInv == TypeOK /\ FilesInv /\ SaverInv /\ LoaderInv /\ NoMaterialDestroyed

-----------------------------------------------------------------------------
\* The credentials of one profile.

\* A load changes nothing but what it has read, and the staple in ssl.
LEMMA LoadFrame ==
  ASSUME TypeOK, NEW r \in Loader, Load(r)
  PROVE  /\ UNCHANGED <<stage, backup, saving, history>>
         /\ \/ ssl' = ssl
            \/ ssl # Nothing /\ ssl' = [ssl EXCEPT !.ocsp = certs[r]]
<1> USE DEF history, saving, read, files
<1>1. CASE PersistOcsp(r)
  BY <1>1 DEF PersistOcsp
<1>2. CASE LoadCerts(r) \/ CheckCached(r) \/ FetchOcsp(r) \/ WriteTemp(r)
  BY <1>2 DEF LoadCerts, CheckCached, FetchOcsp, WriteTemp
<1>3. CASE ReadCerts(r) \/ CheckKey(r) \/ ReadKey(r) \/ ReadOcsp(r)
  BY <1>3 DEF ReadCerts, CheckKey, ReadKey, ReadOcsp
<1>4. CASE Build(r) \/ LoaderDies(r)
  BY <1>4 DEF Build, LoaderDies
<1> QED
  BY <1>1, <1>2, <1>3, <1>4, Load(r) DEF Load

\* A save does not touch what a load has read, and what was installed stays so.
LEMMA SaveFrame ==
  ASSUME NEW s \in Saver, Save(s)
  PROVE  UNCHANGED loading /\ committed \subseteq committed'
<1> USE DEF history, saving, files
<1>1. CASE CreateStage(s) \/ WriteCert(s) \/ WriteKey(s) \/ CheckOld(s) \/ PreserveOld(s)
  BY <1>1 DEF CreateStage, WriteCert, WriteKey, CheckOld, PreserveOld
<1>2. CASE Install(s)
  BY <1>2 DEF Install
<1>3. CASE RollBack(s) \/ DiscardStage(s) \/ RemoveBackup(s) \/ SaverDies(s)
  BY <1>3 DEF RollBack, DiscardStage, RemoveBackup, SaverDies
<1> QED
  BY <1>1, <1>2, <1>3, Save(s) DEF Save

\* Every step keeps the types.
LEMMA TypeStep == IndInv /\ [Next]_vars => TypeOK'
<1> SUFFICES ASSUME IndInv, [Next]_vars PROVE TypeOK'
  OBVIOUS
<1> USE StoreAssumption DEF IndInv, TypeOK, SaverInv, Dir, Empty, File, Gen, SaverDone,
      LoaderDone,
        files, saving, read, loading, history
<1>1. ASSUME NEW s \in Saver, CreateStage(s) PROVE TypeOK'
  BY <1>1 DEF CreateStage, Go
<1>2. ASSUME NEW s \in Saver, WriteCert(s) PROVE TypeOK'
  BY <1>2 DEF WriteCert, Go
<1>3. ASSUME NEW s \in Saver, WriteKey(s) PROVE TypeOK'
  BY <1>3 DEF WriteKey, Go
<1>4. ASSUME NEW s \in Saver, CheckOld(s) PROVE TypeOK'
  <2>1. hadOld' = hadOld \/ hadOld' = [hadOld EXCEPT ![s] = ssl # Nothing]
    BY <1>4 DEF CheckOld
  <2>2. hadOld' \in [Saver -> BOOLEAN]
    BY <2>1
  <2> QED
    BY <1>4, <2>2 DEF CheckOld, Go
<1>5. ASSUME NEW s \in Saver, PreserveOld(s) PROVE TypeOK'
  BY <1>5 DEF PreserveOld, Go
<1>6. ASSUME NEW s \in Saver, Install(s) PROVE TypeOK'
  BY <1>6 DEF Install, Go, MayBecomeSsl
<1>7. ASSUME NEW s \in Saver, RollBack(s) PROVE TypeOK'
  BY <1>7 DEF RollBack, Go, MayBecomeSsl
<1>8. ASSUME NEW s \in Saver, DiscardStage(s) PROVE TypeOK'
  BY <1>8 DEF DiscardStage, Go
<1>9. ASSUME NEW s \in Saver, RemoveBackup(s) PROVE TypeOK'
  BY <1>9 DEF RemoveBackup, Go
<1>10. ASSUME NEW s \in Saver, SaverDies(s) PROVE TypeOK'
  BY <1>10 DEF SaverDies, Go
<1>11. ASSUME NEW r \in Loader, LoadCerts(r) PROVE TypeOK'
  BY <1>11 DEF LoadCerts, Move, Has
<1>12. ASSUME NEW r \in Loader, CheckCached(r) PROVE TypeOK'
  BY <1>12 DEF CheckCached, Move
<1>13. ASSUME NEW r \in Loader, FetchOcsp(r) PROVE TypeOK'
  BY <1>13 DEF FetchOcsp, Move
<1>14. ASSUME NEW r \in Loader, WriteTemp(r) PROVE TypeOK'
  BY <1>14 DEF WriteTemp, Move
<1>15. ASSUME NEW r \in Loader, PersistOcsp(r) PROVE TypeOK'
  BY <1>15 DEF PersistOcsp, Move
<1>16. ASSUME NEW r \in Loader, ReadCerts(r) PROVE TypeOK'
  BY <1>16 DEF ReadCerts, Move, Has
<1>17. ASSUME NEW r \in Loader, CheckKey(r) PROVE TypeOK'
  BY <1>17 DEF CheckKey, Move
<1>18. ASSUME NEW r \in Loader, ReadKey(r) PROVE TypeOK'
  BY <1>18 DEF ReadKey, Move, Has
<1>19. ASSUME NEW r \in Loader, ReadOcsp(r) PROVE TypeOK'
  BY <1>19 DEF ReadOcsp, Move, Has
<1>20. ASSUME NEW r \in Loader, Build(r) PROVE TypeOK'
  BY <1>20 DEF Build, Move
<1>21. ASSUME NEW r \in Loader, LoaderDies(r) PROVE TypeOK'
  BY <1>21 DEF LoaderDies, Move
<1>22. CASE UNCHANGED vars
  BY <1>22 DEF vars
<1> QED
  BY <1>1, <1>2, <1>3, <1>4, <1>5, <1>6, <1>7, <1>8, <1>9, <1>10, <1>11, <1>12, <1>13,
       <1>14, <1>15, <1>16, <1>17, <1>18, <1>19, <1>20, <1>21, <1>22 DEF Next, Save,
       Load

\* Directories are renamed whole, and only a finished stage becomes ssl.
LEMMA FilesStep == IndInv /\ [Next]_vars => FilesInv'
<1> SUFFICES ASSUME IndInv, [Next]_vars PROVE FilesInv'
  OBVIOUS
<1> USE StoreAssumption DEF IndInv, TypeOK, SaverInv, FilesInv, Whole, BeforeInstall,
      Dir, Empty, File, Gen, SaverDone,
        files, saving, loading, history
<1>1. ASSUME NEW s \in Saver, CreateStage(s) PROVE FilesInv'
  BY <1>1 DEF CreateStage, Go
<1>2. ASSUME NEW s \in Saver, WriteCert(s) PROVE FilesInv'
  BY <1>2 DEF WriteCert, Go
<1>3. ASSUME NEW s \in Saver, WriteKey(s) PROVE FilesInv'
  BY <1>3 DEF WriteKey, Go
<1>4. ASSUME NEW s \in Saver, CheckOld(s) PROVE FilesInv'
  BY <1>4 DEF CheckOld, Go
<1>5. ASSUME NEW s \in Saver, PreserveOld(s) PROVE FilesInv'
  BY <1>5 DEF PreserveOld, Go
<1>6. ASSUME NEW s \in Saver, Install(s) PROVE FilesInv'
  BY <1>6 DEF Install, Go, MayBecomeSsl
<1>7. ASSUME NEW s \in Saver, RollBack(s) PROVE FilesInv'
  BY <1>7 DEF RollBack, Go, MayBecomeSsl
<1>8. ASSUME NEW s \in Saver, DiscardStage(s) PROVE FilesInv'
  BY <1>8 DEF DiscardStage, Go
<1>9. ASSUME NEW s \in Saver, RemoveBackup(s) PROVE FilesInv'
  BY <1>9 DEF RemoveBackup, Go
<1>10. ASSUME NEW s \in Saver, SaverDies(s) PROVE FilesInv'
  BY <1>10 DEF SaverDies, Go
<1>11. ASSUME NEW r \in Loader, Load(r) PROVE FilesInv'
  BY <1>11, LoadFrame
<1>12. CASE UNCHANGED vars
  BY <1>12 DEF vars
<1> QED
  BY <1>1, <1>2, <1>3, <1>4, <1>5, <1>6, <1>7, <1>8, <1>9, <1>10, <1>11, <1>12 DEF Next,
       Save

\* Each save finds what it left, since nobody else touches its stage and backup.
LEMMA SaverStep == IndInv /\ [Next]_vars => SaverInv'
<1> SUFFICES ASSUME IndInv, [Next]_vars PROVE SaverInv'
  OBVIOUS
<1> USE StoreAssumption DEF IndInv, TypeOK, SaverInv, BeforeInstall, Dir, Empty, File,
      Gen, SaverDone,
        files, saving, loading, history
<1>1. ASSUME NEW s \in Saver, CreateStage(s) PROVE SaverInv'
  BY <1>1 DEF CreateStage, Go
<1>2. ASSUME NEW s \in Saver, WriteCert(s) PROVE SaverInv'
  BY <1>2 DEF WriteCert, Go
<1>3. ASSUME NEW s \in Saver, WriteKey(s) PROVE SaverInv'
  BY <1>3 DEF WriteKey, Go
<1>4. ASSUME NEW s \in Saver, CheckOld(s) PROVE SaverInv'
  <2>1. ASSUME NEW t \in Saver, t # s
        PROVE  saver'[t] = saver[t] /\ hadOld'[t] = hadOld[t]
    BY <1>4, <2>1 DEF CheckOld, Go
  <2>2. CASE saver' = [saver EXCEPT ![s] = "discard"] /\ hadOld' = hadOld
    BY <1>4, <2>2 DEF CheckOld
  <2>3. CASE /\ hadOld' = [hadOld EXCEPT ![s] = ssl # Nothing]
             /\ saver' = [saver EXCEPT ![s] = IF ssl # Nothing THEN "preserve" ELSE "install"]
    <3>1. hadOld'[s] <=> ssl # Nothing
      BY <2>3
    <3>2. saver'[s] = IF ssl # Nothing THEN "preserve" ELSE "install"
      BY <2>3
    <3>3. saver[s] = "check" /\ UNCHANGED <<files, history>>
      BY <1>4 DEF CheckOld
    <3> QED
      BY <2>1, <3>1, <3>2, <3>3
  <2> QED
    BY <1>4, <2>2, <2>3 DEF CheckOld, Go
<1>5. ASSUME NEW s \in Saver, PreserveOld(s) PROVE SaverInv'
  BY <1>5 DEF PreserveOld, Go
<1>6. ASSUME NEW s \in Saver, Install(s) PROVE SaverInv'
  BY <1>6 DEF Install, Go, MayBecomeSsl
<1>7. ASSUME NEW s \in Saver, RollBack(s) PROVE SaverInv'
  BY <1>7 DEF RollBack, Go, MayBecomeSsl
<1>8. ASSUME NEW s \in Saver, DiscardStage(s) PROVE SaverInv'
  BY <1>8 DEF DiscardStage, Go
<1>9. ASSUME NEW s \in Saver, RemoveBackup(s) PROVE SaverInv'
  BY <1>9 DEF RemoveBackup, Go
<1>10. ASSUME NEW s \in Saver, SaverDies(s) PROVE SaverInv'
  BY <1>10 DEF SaverDies, Go
<1>11. ASSUME NEW r \in Loader, Load(r) PROVE SaverInv'
  BY <1>11, LoadFrame
<1>12. CASE UNCHANGED vars
  BY <1>12 DEF vars
<1> QED
  BY <1>1, <1>2, <1>3, <1>4, <1>5, <1>6, <1>7, <1>8, <1>9, <1>10, <1>11, <1>12 DEF Next,
       Save

\* A rename loses no material, and only the backup of a replaced directory is removed.
LEMMA MaterialStep == IndInv /\ [Next]_vars => NoMaterialDestroyed'
<1> SUFFICES ASSUME IndInv, [Next]_vars PROVE NoMaterialDestroyed'
  OBVIOUS
<1> USE StoreAssumption DEF IndInv, TypeOK, SaverInv, BeforeInstall, NoMaterialDestroyed,
      Dir, Empty, File, Gen, SaverDone,
        files, saving, loading, history
<1>1. ASSUME NEW s \in Saver, CreateStage(s) PROVE NoMaterialDestroyed'
  BY <1>1 DEF CreateStage, Go
<1>2. ASSUME NEW s \in Saver, WriteCert(s) PROVE NoMaterialDestroyed'
  BY <1>2 DEF WriteCert, Go
<1>3. ASSUME NEW s \in Saver, WriteKey(s) PROVE NoMaterialDestroyed'
  BY <1>3 DEF WriteKey, Go
<1>4. ASSUME NEW s \in Saver, CheckOld(s) PROVE NoMaterialDestroyed'
  BY <1>4 DEF CheckOld, Go
<1>5. ASSUME NEW s \in Saver, PreserveOld(s) PROVE NoMaterialDestroyed'
  BY <1>5 DEF PreserveOld, Go
<1>6. ASSUME NEW s \in Saver, Install(s) PROVE NoMaterialDestroyed'
  BY <1>6 DEF Install, Go, MayBecomeSsl
<1>7. ASSUME NEW s \in Saver, RollBack(s) PROVE NoMaterialDestroyed'
  BY <1>7 DEF RollBack, Go, MayBecomeSsl
<1>8. ASSUME NEW s \in Saver, DiscardStage(s) PROVE NoMaterialDestroyed'
  BY <1>8 DEF DiscardStage, Go
<1>9. ASSUME NEW s \in Saver, RemoveBackup(s) PROVE NoMaterialDestroyed'
  BY <1>9 DEF RemoveBackup, Go
<1>10. ASSUME NEW s \in Saver, SaverDies(s) PROVE NoMaterialDestroyed'
  BY <1>10 DEF SaverDies, Go
<1>11. ASSUME NEW r \in Loader, Load(r) PROVE NoMaterialDestroyed'
  BY <1>11, LoadFrame
<1>12. CASE UNCHANGED vars
  BY <1>12 DEF vars
<1> QED
  BY <1>1, <1>2, <1>3, <1>4, <1>5, <1>6, <1>7, <1>8, <1>9, <1>10, <1>11, <1>12 DEF Next,
       Save

\* A load that has come past the key keeps one that had been installed, whatever
\* happens to ssl after that.
LEMMA LoaderStep == IndInv /\ [Next]_vars => LoaderInv'
<1> SUFFICES ASSUME IndInv, [Next]_vars PROVE LoaderInv'
  OBVIOUS
<1> USE DEF IndInv, TypeOK, LoaderInv, LoaderDone, files, saving, read, loading, history
<1>1. ASSUME NEW s \in Saver, Save(s) PROVE LoaderInv'
  BY <1>1, SaveFrame
<1>2. ASSUME NEW r \in Loader, LoadCerts(r) PROVE LoaderInv'
  BY <1>2 DEF LoadCerts, Move
<1>3. ASSUME NEW r \in Loader, CheckCached(r) PROVE LoaderInv'
  BY <1>3 DEF CheckCached, Move
<1>4. ASSUME NEW r \in Loader, FetchOcsp(r) PROVE LoaderInv'
  BY <1>4 DEF FetchOcsp, Move
<1>5. ASSUME NEW r \in Loader, WriteTemp(r) PROVE LoaderInv'
  BY <1>5 DEF WriteTemp, Move
<1>6. ASSUME NEW r \in Loader, PersistOcsp(r) PROVE LoaderInv'
  BY <1>6 DEF PersistOcsp, Move
<1>7. ASSUME NEW r \in Loader, ReadCerts(r) PROVE LoaderInv'
  BY <1>7 DEF ReadCerts, Move
<1>8. ASSUME NEW r \in Loader, CheckKey(r) PROVE LoaderInv'
  BY <1>8 DEF CheckKey, Move
<1>9. ASSUME NEW r \in Loader, ReadKey(r) PROVE LoaderInv'
  <2>1. CASE Move(r, "err") /\ UNCHANGED key
    BY <1>9, <2>1 DEF ReadKey, Move
  <2>2. CASE Has("key") /\ key' = [key EXCEPT ![r] = ssl.key]
    <3>1. ssl.key \in committed
      BY <2>2 DEF Has, FilesInv, Whole
    <3> QED
      BY <1>9, <2>2, <3>1 DEF ReadKey, Move
  <2> QED
    BY <1>9, <2>1, <2>2 DEF ReadKey
<1>10. ASSUME NEW r \in Loader, ReadOcsp(r) PROVE LoaderInv'
  BY <1>10 DEF ReadOcsp, Move
<1>11. ASSUME NEW r \in Loader, Build(r) PROVE LoaderInv'
  BY <1>11 DEF Build, Move
<1>12. ASSUME NEW r \in Loader, LoaderDies(r) PROVE LoaderInv'
  BY <1>12 DEF LoaderDies, Move
<1>13. CASE UNCHANGED vars
  BY <1>13 DEF vars
<1> QED
  BY <1>1, <1>2, <1>3, <1>4, <1>5, <1>6, <1>7, <1>8, <1>9, <1>10, <1>11, <1>12, <1>13
     DEF Next, Load

-----------------------------------------------------------------------------
\* A profile that the program may find has one whole set of material or none.
LEMMA Starts == Init => IndInv
  BY StoreAssumption DEF Init, IndInv, TypeOK, FilesInv, Whole, SaverInv, BeforeInstall,
     LoaderInv, NoMaterialDestroyed, Dir, Empty, File, Gen

LEMMA Step == IndInv /\ [Next]_vars => IndInv'
  BY TypeStep, FilesStep, SaverStep, LoaderStep, MaterialStep DEF IndInv

\* The invariant says what the run checks.
LEMMA Promise == IndInv => EndpointIsWhole /\ NoMaterialDestroyed /\ ResultIsTruthful
  BY DEF IndInv, LoaderInv, SaverInv, BeforeInstall, EndpointIsWhole, ResultIsTruthful

\* The invariant holds in every state, for any number of saves and loads, whatever
\* fails and whoever dies.
THEOREM Inductive == Spec => []IndInv
  BY Starts, Step, PTL DEF Spec

\* The types of the credential directory model (management.rs, endpoint.rs).
THEOREM TypeCorrect == Spec => []TypeOK
  BY Inductive, PTL DEF IndInv

\* Endpoint::load_profile: an endpoint has one certificate chain with its own key,
\* from material that was installed, however many saves replace the directory
\* between its reads.
THEOREM EndpointCorrect == Spec => []EndpointIsWhole
  BY Promise, Inductive, PTL

\* save_identity_transaction: failures and crashes at any file operation leave the
\* material that was in use in ssl or in a backup.
THEOREM MaterialCorrect == Spec => []NoMaterialDestroyed
  BY Inductive, PTL DEF IndInv

\* save_identity reports success exactly when its material was installed.
THEOREM ResultCorrect == Spec => []ResultIsTruthful
  BY Promise, Inductive, PTL

-----------------------------------------------------------------------------
\* Names.

\* normalize_name is idempotent: labels are in lower case and the suffix is there.
LEMMA Normalized ==
  ASSUME NEW d \in [star : BOOLEAN, parts : Seq(STRING), tilde : BOOLEAN],
         Home!NormalizeProfileName(d) # None
  PROVE  Home!NormalizeProfileName(Home!NormalizeProfileName(d)) = Home!NormalizeProfileName(d)
<1> DEFINE parts == [i \in DOMAIN d.parts |-> Home!Lower(d.parts[i])]
           full == Home!NormalizeName(d)
           n == Home!Name(d.star, full)
<1>1. full # None /\ Home!NormalizeProfileName(d) = n
  BY DEF Home!NormalizeProfileName
<1>2. d.parts \in Seq(STRING)
  OBVIOUS
<1>3. parts \in Seq(STRING \cup {"alice"}) /\ Len(parts) = Len(d.parts)
  BY <1>2 DEF Home!Lower
<1>4. \A i \in DOMAIN parts : Home!Lower(parts[i]) = parts[i]
  BY <1>2 DEF Home!Lower
<1>5. /\ parts # <<>> /\ \A i \in DOMAIN parts : Home!ValidLabel(parts[i])
      /\ full = IF ~d.tilde /\ Len(parts) >= 2 /\ Home!Last(parts) = Home!Suffix
                THEN parts ELSE Append(parts, Home!Suffix)
  BY <1>1 DEF Home!NormalizeName
<1> HIDE DEF parts, full
<1> DEFINE T == STRING \cup {"alice", "dhttp.net"}
<1>6. /\ full \in Seq(T) /\ Len(full) >= 2 /\ full[Len(full)] = "dhttp.net"
      /\ \A i \in 1 .. Len(full) : Home!Lower(full[i]) = full[i] /\ Home!ValidLabel(full[i])
  <2>1. CASE ~d.tilde /\ Len(parts) >= 2 /\ Home!Last(parts) = Home!Suffix
    BY <2>1, <1>3, <1>4, <1>5 DEF Home!Last, Home!Suffix
  <2>2. CASE ~(~d.tilde /\ Len(parts) >= 2 /\ Home!Last(parts) = Home!Suffix)
    <3>1. full = Append(parts, "dhttp.net")
      BY <2>2, <1>5 DEF Home!Suffix
    <3>2. parts \in Seq(T) /\ Len(parts) >= 1
      BY <1>3, <1>5
    <3>3. /\ full \in Seq(T) /\ Len(full) = Len(parts) + 1 /\ full[Len(full)] = "dhttp.net"
          /\ \A i \in 1 .. Len(parts) : full[i] = parts[i]
      BY <3>1, <3>2
    <3>4. Home!Lower("dhttp.net") = "dhttp.net" /\ Home!ValidLabel("dhttp.net")
      BY DEF Home!Lower, Home!ValidLabel
    <3>5. ASSUME NEW i \in 1 .. Len(full)
          PROVE  Home!Lower(full[i]) = full[i] /\ Home!ValidLabel(full[i])
      <4>1. i \in 1 .. Len(parts) \/ i = Len(full)
        BY <3>2, <3>3
      <4> QED
        BY <4>1, <3>2, <3>3, <3>4, <1>4, <1>5
    <3> QED
      BY <3>2, <3>3, <3>5
  <2> QED
    BY <2>1, <2>2
<1>7. n.parts = full /\ n.star = d.star /\ n.tilde = FALSE
  BY DEF Home!Name
<1>8. [i \in DOMAIN n.parts |-> Home!Lower(n.parts[i])] = full
  BY <1>6, <1>7
<1>9. full # <<>> /\ DOMAIN full = 1 .. Len(full)
  BY <1>6
<1>10. Home!NormalizeName(n) = full
  BY <1>6, <1>7, <1>8, <1>9 DEF Home!NormalizeName, Home!Last, Home!Suffix
<1>11. Home!NormalizeProfileName(n) = n
  BY <1>1, <1>7, <1>10 DEF Home!NormalizeProfileName
<1> QED
  BY <1>1, <1>11

\* The ways to find a profile agree in every home (discover_identity_profiles,
\* resolve_identity_profile_exactly, identity_profile_candidates).
LEMMA Listing == Home!ListingsAgree
<1> SUFFICES ASSUME NEW p \in Home!Discovered
             PROVE  /\ Home!ResolveExactly(p.name) = p
                    /\ Home!NormalizeProfileName(p.dir) = p.name
                    /\ \A q \in Home!Discovered : q.name = p.name => q = p
                    /\ p.name \in Strict => p \in Home!Candidates
  BY DEF Home!ListingsAgree
<1>1. ASSUME NEW q \in Home!Discovered
      PROVE  /\ q = [dir |-> q.dir, name |-> q.name]
             /\ q.dir \in Entries /\ Home!Listed(q.dir)
             /\ q.name = Home!NormalizeProfileName(q.dir)
             /\ q.name # None /\ Home!NormalizeProfileName(q.name) = q.name
             /\ q.dir = Home!DirName(q.name)
  <2>1. PICK d \in Entries : Home!Listed(d) /\ q = Home!Profile(d, Home!NormalizeProfileName(d))
    BY DEF Home!Discovered
  <2>2. q = [dir |-> d, name |-> Home!NormalizeProfileName(d)]
    BY <2>1 DEF Home!Profile
  <2>3. Home!NormalizeProfileName(d) # None /\ d = Home!DirName(d)
    BY <2>1 DEF Home!Listed
  <2>4. Home!NormalizeProfileName(Home!NormalizeProfileName(d)) = Home!NormalizeProfileName(d)
    BY <2>3, Normalized, HomeAssumption
  <2>5. Home!DirName(Home!NormalizeProfileName(d)) = Home!DirName(d)
    BY <2>4 DEF Home!DirName
  <2>6. q.dir = d /\ q.name = Home!NormalizeProfileName(d)
    BY <2>2
  <2> QED
    BY <2>1, <2>2, <2>3, <2>4, <2>5, <2>6
<1>2. Home!Exists(p.dir)
  BY <1>1 DEF Home!Exists, Home!Listed
<1>3. Home!ResolveExactly(p.name) = p
  BY <1>1, <1>2 DEF Home!ResolveExactly, Home!Profile
<1>4. ASSUME NEW q \in Home!Discovered, q.name = p.name PROVE q = p
  BY <1>1, <1>4
<1>5. p.name \in Strict => p \in Home!Candidates
  BY <1>1 DEF Home!Candidates, Home!Listed, Home!Profile
<1> QED
  BY <1>1, <1>3, <1>4, <1>5

-----------------------------------------------------------------------------
\* The settings file.

\* What a settings file consists of.
Cell == {Home!Header} \cup (Default \X Nat)

\* A save's text begins with the header and the name's line, which is not empty.
LEMMA TextIs ==
  ASSUME NEW n \in Default
  PROVE  /\ Home!Text(n) \in Seq(Cell) /\ Len(Home!Text(n)) >= 2
         /\ Home!Text(n)[1] = Home!Header /\ Home!Text(n)[2] = <<n, 1>>
<1> DEFINE k == Size[n.parts[1]]
           line == [i \in 1 .. k |-> <<n, i>>]
<1>1. k \in Nat \ {0}
  BY HomeAssumption
<1> HIDE DEF k
<1>2. line \in Seq(Cell) /\ Len(line) = k /\ line[1] = <<n, 1>>
  BY <1>1 DEF Cell
<1>3. <<Home!Header>> \in Seq(Cell) /\ Len(<<Home!Header>>) = 1
  BY DEF Cell
<1>4. Home!Text(n) = <<Home!Header>> \o line
  BY DEF Home!Text, k
<1> HIDE DEF line
<1> QED
  BY <1>1, <1>2, <1>3, <1>4

\* A text that is not a line of its own says what it begins with.
LEMMA SecondIs ==
  ASSUME NEW n \in Default, NEW text \in Seq(Cell), n \in Home!Begun(text),
         text \notin {<<>>, <<Home!Header>>}
  PROVE  text[2] = <<n, 1>> /\ 2 \in DOMAIN text
<1>1. /\ Home!Text(n) \in Seq(Cell) /\ Len(Home!Text(n)) >= 2
      /\ Home!Text(n)[1] = Home!Header /\ Home!Text(n)[2] = <<n, 1>>
  BY TextIs
<1> DEFINE whole == Home!Text(n)
<1>2. \A i \in DOMAIN text \cap DOMAIN whole : text[i] = whole[i]
  BY DEF Home!Begun
<1> HIDE DEF whole
<1>3. 1 \in DOMAIN whole /\ 2 \in DOMAIN whole /\ whole[1] = Home!Header /\ whole[2] = <<n, 1>>
  BY <1>1 DEF whole
<1>4. Len(text) # 0
  BY DEF Home!Header
<1>5. text[1] = Home!Header
  BY <1>2, <1>3, <1>4
<1>6. Len(text) # 1
  BY <1>5
<1> QED
  BY <1>2, <1>3, <1>4, <1>6

\* The settings that were written whole are read back.
LEMMA ParsesText ==
  ASSUME NEW n \in Default
  PROVE  Home!Parses(Home!Text(n)) = {n}
<1>1. ASSUME NEW m \in Default, Home!Text(n) = Home!Text(m) PROVE m = n
  <2>1. <<n, 1>> = <<m, 1>>
    BY <1>1, TextIs, Zenon
  <2> QED
    BY <2>1
<1>2. Home!Text(n) \notin {<<>>, <<Home!Header>>}
  <2>1. Len(Home!Text(n)) # 0 /\ Len(Home!Text(n)) # 1
    <3>1. Home!Text(n) \in Seq(Cell) /\ Len(Home!Text(n)) >= 2
      BY TextIs, Zenon
    <3>2. Len(Home!Text(n)) \in Nat
      BY <3>1
    <3>3. \A k \in Nat : k >= 2 => k # 0 /\ k # 1
      OBVIOUS
    <3> QED
      BY <3>1, <3>2, <3>3, Zenon
  <2>2. Len(<<>>) = 0
    OBVIOUS
  <2>3. Len(<<Home!Header>>) = 1
    OBVIOUS
  <2> QED
    BY <2>1, <2>2, <2>3, Zenon
<1>3. Home!Whole(Home!Text(n)) = {n}
  BY <1>1, Zenon DEF Home!Whole
<1> QED
  BY <1>2, <1>3, Zenon DEF Home!Parses

\* A text that begins with one name, and says no other, is read as that name if it
\* is read as a name at all.
LEMMA ParsesBegun ==
  ASSUME NEW n \in Default, NEW text \in Seq(Cell), n \in Home!Begun(text),
         NEW m \in Home!Parses(text), m \notin {Broken, NoDefault}
  PROVE  m = n
<1>1. text \notin {<<>>, <<Home!Header>>}
  BY DEF Home!Parses
<1>2. text[2] = <<n, 1>>
  BY <1>1, SecondIs
<1>3. CASE m \in Home!Whole(text)
  <2>1. m \in Default /\ text = Home!Text(m)
    BY <1>3 DEF Home!Whole
  <2>2. <<m, 1>> = <<n, 1>>
    BY <2>1, <1>2, TextIs, Zenon
  <2> QED
    BY <2>2
<1>4. CASE m \in Home!Begun(text)
  <2>1. m \in Default
    BY <1>4 DEF Home!Begun
  <2>2. text[2] = <<m, 1>>
    BY <1>1, <1>4, <2>1, SecondIs
  <2> QED
    BY <1>2, <2>2
<1> QED
  BY <1>1, <1>3, <1>4 DEF Home!Parses

\* A save that starts with an empty file leaves its text.
LEMMA OverwriteEmpty ==
  ASSUME NEW text \in Seq(Cell), file = <<>>
  PROVE  Home!Overwrite(text) = text
<1>1. SubSeq(<<>>, Len(text) + 1, Len(<<>>)) = <<>> /\ text \o <<>> = text
  OBVIOUS
<1> QED
  BY <1>1, Zenon DEF Home!Overwrite

\* A write, whole or in part, adds nothing but its own text, and a whole one leaves
\* that at the beginning.
LEMMA OverwriteIs ==
  ASSUME NEW text \in Seq(Cell), file \in Seq(Cell)
  PROVE  /\ Home!Overwrite(text) \in Seq(Cell)
         /\ \A i \in DOMAIN text : Home!Overwrite(text)[i] = text[i]
<1> DEFINE rest == SubSeq(file, Len(text) + 1, Len(file))
<1>1. rest \in Seq(Cell)
  OBVIOUS
<1>2. Home!Overwrite(text) = text \o rest
  BY DEF Home!Overwrite
<1> HIDE DEF rest
<1> QED
  BY <1>1, <1>2

\* The beginning of a text, and a text with something after it, say its name.
LEMMA BegunPart ==
  ASSUME NEW n \in Default, NEW k \in 0 .. Len(Home!Text(n)) - 1
  PROVE  /\ SubSeq(Home!Text(n), 1, k) \in Seq(Cell)
         /\ n \in Home!Begun(SubSeq(Home!Text(n), 1, k))
<1>1. ASSUME NEW text \in Seq(Cell), NEW j \in 0 .. Len(text) - 1
      PROVE  /\ SubSeq(text, 1, j) \in Seq(Cell)
             /\ \A i \in DOMAIN SubSeq(text, 1, j) : SubSeq(text, 1, j)[i] = text[i]
  OBVIOUS
<1>2. Home!Text(n) \in Seq(Cell)
  BY TextIs
<1> QED
  BY <1>1, <1>2, Zenon DEF Home!Begun

LEMMA BegunWhole ==
  ASSUME NEW n \in Default, file \in Seq(Cell)
  PROVE  /\ Home!Overwrite(Home!Text(n)) \in Seq(Cell)
         /\ n \in Home!Begun(Home!Overwrite(Home!Text(n)))
  BY TextIs, OverwriteIs, Zenon DEF Home!Begun

-----------------------------------------------------------------------------
Both == {"overlap", "stop"}

\* The file consists of what saves have written; while one save is under way and
\* none has overlapped with it, it is empty; unless saves overlapped and one of them
\* stopped, no two names meet in its line.
SettingsInv ==
    /\ DOMAIN wanted = Editor
    /\ file = None \/ file \in Seq(Cell)
    /\ \A e \in Editor :
          /\ editor[e] \in {"open", "opened"} => wanted[e] \in chosen
          /\ Home!Writing(e) => file \in Seq(Cell)
          /\ Home!Writing(e) /\ "overlap" \notin disturbed =>
                /\ file = <<>> /\ wanted[e] = expected
                /\ \A o \in Editor : Home!Writing(o) => o = e
    /\ expected # None /\ disturbed = {} /\ (\A e \in Editor : ~Home!Writing(e)) =>
          Home!Parses(file) = {expected}
    /\ disturbed # Both =>
          file \in {None, <<>>} \/ \E n \in chosen : n \in Home!Begun(file)

\* Profiles that a resolution could find when it began are still there, so that one
\* which missed the exact profile could not have found it.
ResolverInv ==
    /\ DOMAIN found = Resolver /\ DOMAIN before = Resolver
    /\ \A r \in Resolver :
          /\ \A d \in before[r] : Home!Exists(d)
          /\ resolver[r] = "wildcard" => Home!DirName(found[r]) \notin before[r]

HomeInv == Home!TypeOK /\ SettingsInv /\ ResolverInv /\ Home!ResolvedIsChosen

\* The settings are as the program may find them.
LEMMA HomeStarts == Home!Init => HomeInv
<1> SUFFICES ASSUME Home!Init PROVE HomeInv
  OBVIOUS
<1> USE DEF Home!Init
<1>1. Home!TypeOK
  BY DEF Home!TypeOK
<1>2. /\ file = None \/ file \in Seq(Cell)
      /\ file \in {None, <<>>} \/ \E n \in chosen : n \in Home!Begun(file)
  <2>1. CASE file \in {None, <<>>}
    <3>1. <<>> \in Seq(Cell)
      OBVIOUS
    <3> QED
      BY <2>1, <3>1, Zenon
  <2>2. ASSUME NEW n \in Default, file = Home!Text(n)
        PROVE  file \in Seq(Cell) /\ n \in chosen /\ n \in Home!Begun(file)
    <3>1. file \in Seq(Cell)
      BY <2>2, TextIs
    <3>2. n \in chosen
      BY <2>2
    <3>3. n \in Home!Begun(file)
      BY <2>2, Zenon DEF Home!Begun
    <3> QED
      BY <3>1, <3>2, <3>3
  <2> QED
    BY <2>1, <2>2
<1>3. \A e \in Editor : editor[e] = "idle" /\ ~Home!Writing(e)
  BY DEF Home!Writing
<1>4. expected # None => Home!Parses(file) = {expected}
  <2>1. CASE file = None
    BY <2>1
  <2>2. CASE file = <<>> /\ file # None
    <3>1. Home!Parses(file) = {NoDefault}
      BY <2>2 DEF Home!Parses
    <3> QED
      BY <2>2, <3>1
  <2>3. ASSUME NEW n \in Default, file = Home!Text(n), file # None
        PROVE  Home!Parses(file) = {expected}
    <3>1. Home!Parses(file) = {n}
      BY <2>3, ParsesText
    <3> QED
      BY <2>3, <3>1
  <2> QED
    BY <2>1, <2>2, <2>3
<1>5. SettingsInv
  BY <1>2, <1>3, <1>4 DEF SettingsInv
<1>6. ResolverInv /\ Home!ResolvedIsChosen
  BY DEF ResolverInv, Home!ResolvedIsChosen
<1> QED
  BY <1>1, <1>5, <1>6 DEF HomeInv

\* Every step keeps the types.
LEMMA HomeTypeStep == HomeInv /\ [Home!Next]_homeVars => Home!TypeOK'
<1> SUFFICES ASSUME HomeInv, [Home!Next]_homeVars PROVE Home!TypeOK'
  OBVIOUS
<1> USE DEF HomeInv, Home!TypeOK
<1>1. ASSUME NEW e \in Editor, NEW n \in Default, Home!Choose(e, n) PROVE Home!TypeOK'
  BY <1>1 DEF Home!Choose
<1>2. ASSUME NEW e \in Editor, Home!Open(e) PROVE Home!TypeOK'
  BY <1>2 DEF Home!Open
<1>3. ASSUME NEW e \in Editor, Home!Write(e) PROVE Home!TypeOK'
  BY <1>3 DEF Home!Write
<1>4. ASSUME NEW e \in Editor, Home!WriteStops(e) PROVE Home!TypeOK'
  BY <1>4 DEF Home!WriteStops
<1>5. ASSUME NEW r \in Resolver, Home!LoadSettings(r) PROVE Home!TypeOK'
  BY <1>5 DEF Home!LoadSettings
<1>6. ASSUME NEW r \in Resolver, Home!TryExact(r) PROVE Home!TypeOK'
  BY <1>6 DEF Home!TryExact
<1>7. ASSUME NEW r \in Resolver, Home!TryWildcard(r) PROVE Home!TypeOK'
  BY <1>7 DEF Home!TryWildcard
<1>8. ASSUME NEW n \in Default, Home!CreateProfile(n) PROVE Home!TypeOK'
  BY <1>8 DEF Home!CreateProfile, Home!Node, Home!Kind
<1>9. CASE UNCHANGED homeVars
  BY <1>9 DEF homeVars
<1> QED
  BY <1>1, <1>2, <1>3, <1>4, <1>5, <1>6, <1>7, <1>8, <1>9 DEF Home!Next

\* A save that nobody disturbs writes its text into a file it has emptied.
LEMMA SettingsStep == HomeInv /\ [Home!Next]_homeVars => SettingsInv'
<1> SUFFICES ASSUME HomeInv, [Home!Next]_homeVars PROVE SettingsInv'
  OBVIOUS
<1> USE DEF HomeInv, Home!TypeOK, SettingsInv, Home!Writing
<1>1. ASSUME NEW e \in Editor, NEW n \in Default, Home!Choose(e, n) PROVE SettingsInv'
  <2>1. /\ editor[e] = "idle" /\ editor' = [editor EXCEPT ![e] = "open"]
        /\ wanted' = [wanted EXCEPT ![e] = n] /\ chosen' = chosen \cup {n}
        /\ UNCHANGED <<file, expected, disturbed>>
    BY <1>1 DEF Home!Choose
  <2>2. Home!Parses(file)' = Home!Parses(file)
    BY <2>1 DEF Home!Parses, Home!Whole, Home!Begun
  <2>3. ASSUME NEW m \in chosen PROVE (m \in Home!Begun(file))' <=> m \in Home!Begun(file)
    BY <2>1 DEF Home!Begun
  <2> QED
    BY <2>1, <2>2, <2>3
<1>2. ASSUME NEW e \in Editor, Home!Open(e) PROVE SettingsInv'
  <2>1. /\ editor[e] = "open" /\ editor' = [editor EXCEPT ![e] = "opened"]
        /\ file' = <<>> /\ UNCHANGED <<wanted, chosen>> /\ expected' = wanted[e]
        /\ disturbed' = IF \E o \in Editor : Home!Writing(o) THEN disturbed \cup {"overlap"} ELSE {}
    BY <1>2 DEF Home!Open
  <2>2. file' \in Seq(Cell)
    BY <2>1
  <2> QED
    BY <2>1, <2>2
<1>3. ASSUME NEW e \in Editor, Home!Write(e) PROVE SettingsInv'
  <2>1. /\ editor[e] = "opened" /\ editor' = [editor EXCEPT ![e] = "ok"]
        /\ file' = Home!Overwrite(Home!Text(wanted[e]))
        /\ UNCHANGED <<wanted, expected, disturbed, chosen>>
    BY <1>3 DEF Home!Write
  <2>2. wanted[e] \in chosen /\ wanted[e] \in Default /\ file \in Seq(Cell)
    BY <2>1
  <2>3. file' \in Seq(Cell) /\ wanted[e] \in Home!Begun(file')
    BY <2>1, <2>2, BegunWhole
  <2>4. (wanted[e] \in Home!Begun(file))'
    BY <2>1, <2>3 DEF Home!Begun
  <2>5. ASSUME disturbed = {}
        PROVE  Home!Parses(file)' = {expected}
    <3>1. file = <<>> /\ wanted[e] = expected
      BY <2>1, <2>5
    <3>2. file' = Home!Text(expected)
      BY <2>1, <2>2, <3>1, OverwriteEmpty, TextIs
    <3>3. Home!Parses(file') = {expected}
      BY <2>2, <3>1, <3>2, ParsesText
    <3> QED
      BY <3>3 DEF Home!Parses, Home!Whole, Home!Begun
  <2> QED
    BY <2>1, <2>2, <2>3, <2>4, <2>5
<1>4. ASSUME NEW e \in Editor, Home!WriteStops(e) PROVE SettingsInv'
  <2>1. /\ editor[e] = "opened"
        /\ editor' \in {[editor EXCEPT ![e] = "err"], [editor EXCEPT ![e] = "dead"]}
        /\ disturbed' = disturbed \cup {"stop"} /\ UNCHANGED <<wanted, expected, chosen>>
    BY <1>4 DEF Home!WriteStops
  <2>2. PICK k \in 0 .. Len(Home!Text(wanted[e])) - 1 :
            file' = Home!Overwrite(SubSeq(Home!Text(wanted[e]), 1, k))
    BY <1>4 DEF Home!WriteStops
  <2>3. wanted[e] \in chosen /\ wanted[e] \in Default /\ file \in Seq(Cell)
    BY <2>1
  <2>4. /\ SubSeq(Home!Text(wanted[e]), 1, k) \in Seq(Cell)
        /\ wanted[e] \in Home!Begun(SubSeq(Home!Text(wanted[e]), 1, k))
    BY <2>2, <2>3, BegunPart
  <2>5. file' \in Seq(Cell)
    BY <2>2, <2>3, <2>4, OverwriteIs
  <2>6. ASSUME disturbed' # Both PROVE (wanted[e] \in Home!Begun(file))'
    <3>1. file = <<>>
      BY <2>1, <2>6 DEF Both
    <3>2. file' = SubSeq(Home!Text(wanted[e]), 1, k)
      BY <2>2, <2>4, <3>1, OverwriteEmpty
    <3> QED
      BY <2>1, <2>4, <3>2 DEF Home!Begun
  <2> QED
    BY <2>1, <2>3, <2>5, <2>6
<1>5. ASSUME UNCHANGED <<file, editor, wanted, expected, disturbed, chosen>> PROVE SettingsInv'
  <2>1. Home!Parses(file)' = Home!Parses(file)
    BY <1>5 DEF Home!Parses, Home!Whole, Home!Begun
  <2>2. ASSUME NEW m \in chosen PROVE (m \in Home!Begun(file))' <=> m \in Home!Begun(file)
    BY <1>5 DEF Home!Begun
  <2> QED
    BY <1>5, <2>1, <2>2
<1>6. ASSUME NEW r \in Resolver, Home!LoadSettings(r) \/ Home!TryExact(r) \/ Home!TryWildcard(r)
      PROVE  SettingsInv'
  BY <1>5, <1>6 DEF Home!LoadSettings, Home!TryExact, Home!TryWildcard
<1>7. ASSUME NEW n \in Default, Home!CreateProfile(n) PROVE SettingsInv'
  BY <1>5, <1>7 DEF Home!CreateProfile
<1>8. CASE UNCHANGED homeVars
  BY <1>5, <1>8 DEF homeVars
<1> QED
  BY <1>1, <1>2, <1>3, <1>4, <1>6, <1>7, <1>8 DEF Home!Next

\* A resolution reads a name that was chosen, unless it is spliced, and misses only
\* what was not there.
LEMMA ResolverStep == HomeInv /\ [Home!Next]_homeVars => ResolverInv' /\ Home!ResolvedIsChosen'
<1> SUFFICES ASSUME HomeInv, [Home!Next]_homeVars PROVE ResolverInv' /\ Home!ResolvedIsChosen'
  OBVIOUS
<1> USE DEF HomeInv, Home!TypeOK, ResolverInv, Home!ResolvedIsChosen
<1>0. ASSUME trusted' = trusted, chosen \subseteq chosen', NEW r \in Resolver
      PROVE  Home!Readable(r) \subseteq Home!Readable(r)'
  BY <1>0 DEF Home!Readable
<1>1. ASSUME UNCHANGED <<home, resolver, found, before, trusted>>, chosen \subseteq chosen'
      PROVE  ResolverInv' /\ Home!ResolvedIsChosen'
  BY <1>0, <1>1 DEF Home!Exists
<1>2. ASSUME NEW e \in Editor, NEW n \in Default, Home!Choose(e, n)
      PROVE  ResolverInv' /\ Home!ResolvedIsChosen'
  BY <1>1, <1>2 DEF Home!Choose
<1>3. ASSUME NEW e \in Editor, Home!Open(e) \/ Home!Write(e) \/ Home!WriteStops(e)
      PROVE  ResolverInv' /\ Home!ResolvedIsChosen'
  BY <1>1, <1>3 DEF Home!Open, Home!Write, Home!WriteStops
<1>4. ASSUME NEW r \in Resolver, Home!LoadSettings(r)
      PROVE  ResolverInv' /\ Home!ResolvedIsChosen'
  <2>1. /\ resolver[r] = "idle" /\ UNCHANGED <<home, chosen>>
        /\ before' = [before EXCEPT ![r] = {d \in Entries : Home!Exists(d)}]
        /\ trusted' = [trusted EXCEPT ![r] = disturbed # Both]
    BY <1>4 DEF Home!LoadSettings, Both
  <2>2. \A d : Home!Exists(d)' <=> Home!Exists(d)
    BY <2>1 DEF Home!Exists
  <2>3. \A q \in Resolver : q # r => Home!Readable(q)' = Home!Readable(q)
    BY <2>1 DEF Home!Readable
  <2>4. PICK name \in IF file = None THEN {Broken} ELSE Home!Parses(file) :
            IF name \in {Broken, NoDefault}
            THEN resolver' = [resolver EXCEPT ![r] = "err"] /\ found' = found
            ELSE /\ resolver' = [resolver EXCEPT ![r] = "exact"]
                 /\ found' = [found EXCEPT ![r] = name]
    BY <1>4 DEF Home!LoadSettings
  <2>5. CASE name \in {Broken, NoDefault}
    <3>1. resolver' = [resolver EXCEPT ![r] = "err"] /\ found' = found
      BY <2>4, <2>5
    <3> QED
      BY <2>1, <2>2, <2>3, <3>1
  <2>6. CASE name \notin {Broken, NoDefault}
    <3>1. resolver' = [resolver EXCEPT ![r] = "exact"] /\ found' = [found EXCEPT ![r] = name]
      BY <2>4, <2>6
    <3>2. file # None /\ name \in Home!Parses(file)
      BY <2>4, <2>6
    <3>3. name \in Default \cup Spliced
      BY <2>6, <3>2 DEF Home!Parses, Home!Whole, Home!Begun
    <3>4. CASE disturbed = Both
      <4>1. trusted'[r] = FALSE
        BY <2>1, <3>4
      <4>2. name \in Home!Readable(r)'
        BY <3>3, <4>1 DEF Home!Readable
      <4> QED
        BY <2>1, <2>2, <2>3, <3>1, <4>2
    <3>5. CASE disturbed # Both
      <4>1. file # <<>>
        BY <2>6, <3>2 DEF Home!Parses
      <4>2. PICK n \in chosen : n \in Home!Begun(file)
        BY <3>2, <3>5, <4>1 DEF SettingsInv
      <4>3. name = n
        BY <2>6, <3>2, <4>2, ParsesBegun DEF SettingsInv
      <4>4. name \in Home!Readable(r)'
        BY <2>1, <3>5, <4>2, <4>3 DEF Home!Readable
      <4> QED
        BY <2>1, <2>2, <2>3, <3>1, <4>4
    <3> QED
      BY <3>4, <3>5
  <2> QED
    BY <2>5, <2>6
<1>5. ASSUME NEW r \in Resolver, Home!TryExact(r)
      PROVE  ResolverInv' /\ Home!ResolvedIsChosen'
  <2> DEFINE n == found[r]
             profile == Home!ResolveExactly(n)
  <2>1. /\ resolver[r] = "exact" /\ UNCHANGED <<home, before, trusted, chosen>>
        /\ resolver' = [resolver EXCEPT ![r] = IF profile = None THEN "wildcard" ELSE "found"]
        /\ found' = [found EXCEPT ![r] = IF profile = None THEN @ ELSE profile]
    BY <1>5 DEF Home!TryExact
  <2>2. n \in Home!Readable(r) /\ n \in Default \cup Spliced
    BY <2>1 DEF Home!Readable
  <2>3. /\ Home!NormalizeProfileName(n) = n /\ n # None
        /\ \A d \in Entries : Home!Profile(d, n) # None
    BY <2>2, HomeAssumption
  <2>4. /\ \A d : Home!Exists(d)' <=> Home!Exists(d)
        /\ \A q \in Resolver : Home!Readable(q)' = Home!Readable(q)
    BY <2>1 DEF Home!Exists, Home!Readable
  <2>5. CASE profile = None
    <3>1. ~Home!Exists(Home!DirName(n))
      <4>1. Home!Exists(Home!DirName(n)) => profile = Home!Profile(Home!DirName(n), n)
        BY <2>3 DEF Home!ResolveExactly
      <4>2. Home!Exists(Home!DirName(n)) => Home!DirName(n) \in Entries
        BY DEF Home!Exists
      <4> QED
        BY <2>3, <2>5, <4>1, <4>2
    <3>2. Home!DirName(n) \notin before[r]
      BY <3>1
    <3>3. /\ DOMAIN found' = Resolver /\ \A q \in Resolver : found'[q] = found[q]
          /\ resolver' = [resolver EXCEPT ![r] = "wildcard"]
      BY <2>1, <2>5
    <3> QED
      BY <2>1, <2>2, <2>4, <3>2, <3>3
  <2>6. CASE profile # None
    <3>1. profile.name = n
      BY <2>3, <2>6 DEF Home!ResolveExactly, Home!Profile
    <3>2. found' = [found EXCEPT ![r] = profile] /\ resolver' = [resolver EXCEPT ![r] = "found"]
      BY <2>1, <2>6
    <3> HIDE DEF profile
    <3> QED
      BY <2>1, <2>2, <2>4, <3>1, <3>2
  <2> QED
    BY <2>5, <2>6
<1>6. ASSUME NEW r \in Resolver, Home!TryWildcard(r)
      PROVE  ResolverInv' /\ Home!ResolvedIsChosen'
  <2> DEFINE n == found[r]
             profile == Home!ResolveWildcard(n)
  <2>1. /\ resolver[r] = "wildcard" /\ UNCHANGED <<home, before, trusted, chosen>>
        /\ resolver' = [resolver EXCEPT ![r] = IF profile = None THEN "err" ELSE "found"]
        /\ found' = [found EXCEPT ![r] = IF profile = None THEN @ ELSE profile]
    BY <1>6 DEF Home!TryWildcard
  <2>2. n \in Home!Readable(r) /\ Home!DirName(n) \notin before[r]
    BY <2>1
  <2>3. /\ \A d : Home!Exists(d)' <=> Home!Exists(d)
        /\ \A q \in Resolver : Home!Readable(q)' = Home!Readable(q)
    BY <2>1 DEF Home!Exists, Home!Readable
  <2>4. profile # None => profile.name = Home!Wildcard(n)
    BY DEF Home!ResolveWildcard, Home!Profile
  <2> HIDE DEF profile
  <2> QED
    BY <2>1, <2>2, <2>3, <2>4
<1>7. ASSUME NEW n \in Default, Home!CreateProfile(n)
      PROVE  ResolverInv' /\ Home!ResolvedIsChosen'
  <2>1. /\ UNCHANGED <<resolver, found, before, trusted, chosen>>
        /\ home' = [home EXCEPT ![Home!DirName(n)] = [kind |-> "dir", ssl |-> "missing"]]
    BY <1>7 DEF Home!CreateProfile
  <2>2. /\ \A d : Home!Exists(d) => Home!Exists(d)'
        /\ \A q \in Resolver : Home!Readable(q)' = Home!Readable(q)
    BY <2>1 DEF Home!Exists, Home!Readable
  <2> QED
    BY <2>1, <2>2
<1>8. CASE UNCHANGED homeVars
  BY <1>1, <1>8 DEF homeVars
<1> QED
  BY <1>2, <1>3, <1>4, <1>5, <1>6, <1>7, <1>8 DEF Home!Next

LEMMA HomeStep == HomeInv /\ [Home!Next]_homeVars => HomeInv'
  BY HomeTypeStep, SettingsStep, ResolverStep DEF HomeInv

\* The invariant says what the run checks.
LEMMA HomePromise == HomeInv => DefaultIdentityHolds /\ ListingsAgree
  BY Listing DEF HomeInv, SettingsInv, DefaultIdentityHolds, Home!SettingsSurvive, ListingsAgree

\* Whatever processes save the default identity and resolve it at the same time, and
\* wherever one stops, a default identity that was saved undisturbed is read back,
\* and a resolution works with a name that somebody chose, unless saves overlapped and
\* one of them stopped partway, and falls back to the wildcard only for a profile that
\* was missing (settings.rs save, ssl.rs
\* resolve_identity_profile, management.rs resolve_default_identity_profile).
THEOREM DefaultCorrect == Home!Spec => []DefaultIdentityHolds
<1>1. Home!vars = homeVars
  BY DEF Home!vars, homeVars
<1>2. HomeInv /\ [Home!Next]_(Home!vars) => HomeInv'
  BY <1>1, HomeStep DEF Home!vars, homeVars
<1> QED
  BY <1>2, HomeStarts, HomePromise, PTL DEF Home!Spec

\* In every home that a run of the program can reach, each directory that is listed
\* is where its name resolves to, and no name is listed twice (identity.rs
\* discover_identity_profiles, ssl.rs, management.rs).
THEOREM ListingCorrect == MCSpec => []ListingsAgree
<1>1. ListingsAgree
  BY Listing DEF ListingsAgree
<1> QED
  BY <1>1, PTL

\* The two parts of the home directory together: what the run checks on a small
\* instance, for every home, any number of saves, loads, writers and resolutions
\* (management.rs, settings.rs, ssl.rs, endpoint.rs, ocsp.rs).
THEOREM HomeCorrect ==
  MCSpec => [](/\ EndpointIsWhole /\ NoMaterialDestroyed /\ ResultIsTruthful
               /\ DefaultIdentityHolds /\ ListingsAgree)
<1>1. MCInit => IndInv /\ HomeInv
  BY Starts, HomeStarts DEF MCInit
<1>2. IndInv /\ HomeInv /\ [MCNext]_<<vars, part, homeVars>> => IndInv' /\ HomeInv'
  BY Step, HomeStep DEF MCNext
<1>3. IndInv /\ HomeInv => /\ EndpointIsWhole /\ NoMaterialDestroyed /\ ResultIsTruthful
                          /\ DefaultIdentityHolds /\ ListingsAgree
  BY Promise, HomePromise
<1> QED
  BY <1>1, <1>2, <1>3, PTL DEF MCSpec
=============================================================================
