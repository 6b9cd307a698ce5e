---------------------------- MODULE Releases_proofs ----------------------------
(***************************************************************************)
(* For any number of versions, binaries, uploads and Macs, and whatever    *)
(* codesign finds in the binaries: one upload of a version wins, a Mac     *)
(* installs only what was recorded, nothing is published without the       *)
(* required signature, and a release that is settled stays.                *)
(***************************************************************************)
EXTENDS Releases, TLAPS

\* Nothing is uploaded, downloaded or installed at first.
LEMMA InitReleases == Init => ReleasesInv
<1> SUFFICES ASSUME Init PROVE ReleasesInv
  BY Zenon
<1>1. TypeOK
  <2>1. IsInjective(order)
    BY DEF Init, IsInjective
  <2>2. ToSet(order) = {v \in Versions : row[v] # None}
    BY DEF Init, ToSet
  <2> QED  BY <2>1, <2>2 DEF Init, TypeOK, Stages
<1> QED
  BY <1>1, Zenon DEF Init, ReleasesInv, InstalledIsPublished, OneUploadWins, PublishedIsSigned

\* An upload ends, goes on to the next statement, or is killed by a restart,
\* with nothing recorded or put in place.
LEMMA WaitingSteps ==
  ASSUME ReleasesInv, UNCHANGED <<tablevars, file, hostvars>>,
         \/ \E u \in Uploads : Upload(u) \/ Validate(u) \/ UploadFails(u)
         \/ Restart \/ UNCHANGED reqvars
  PROVE  ReleasesInv'
<1>1. ASSUME NEW u \in Uploads, Upload(u)
      PROVE  ReleasesInv'
  <2>1. PICK v \in Versions, b \in Binaries :
          /\ ver' = [ver EXCEPT ![u] = v] /\ bin' = [bin EXCEPT ![u] = b]
          /\ stage' \in {[stage EXCEPT ![u] = s] :
                           s \in {IF row[v] # None THEN "exists" ELSE "checked", "failed"}}
    BY <1>1, Zenon DEF Upload
  <2>2. PICK s \in {"exists", "checked", "failed"} : stage' = [stage EXCEPT ![u] = s]
    BY <2>1, Zenon
  <2>3. TypeOK'
    BY <2>1, <2>2, Zenon DEF ReleasesInv, TypeOK, Stages, InFlight, tablevars, hostvars
  <2>4. /\ stage'[u] = s /\ ver'[u] = v /\ bin'[u] = b
        /\ \A w \in Uploads \ {u} : stage'[w] = stage[w] /\ ver'[w] = ver[w] /\ bin'[w] = bin[w]
    BY <2>1, <2>2, Zenon DEF ReleasesInv, TypeOK
  <2>5. InstalledIsPublished' /\ PublishedIsSigned'
    BY Zenon DEF ReleasesInv, InstalledIsPublished, PublishedIsSigned, tablevars, hostvars
  <2>6. OneUploadWins'
    <3>1. \A w \in Uploads : stage'[w] = "created" =>
            stage[w] = "created" /\ ver'[w] = ver[w] /\ bin'[w] = bin[w]
      BY <2>4, Zenon
    <3>2. row' = row
      BY Zenon DEF tablevars
    <3>3. OneUploadWins
      BY Zenon DEF ReleasesInv
    <3>4. ASSUME NEW w \in Uploads, stage'[w] = "created"
          PROVE  /\ row'[ver'[w]] = bin'[w]
                 /\ \A x \in Uploads \ {w} : stage'[x] = "created" => ver'[x] # ver'[w]
      BY <3>1, <3>2, <3>3, <3>4 DEF OneUploadWins
    <3> QED  BY <3>4, Zenon DEF OneUploadWins
  <2>7. \A w \in Uploads : stage'[w] # "unused" => ver'[w] # None /\ bin'[w] # None
    BY <2>4, ReleasesAssumption, Zenon DEF ReleasesInv
  <2>8. \A w \in Uploads : stage'[w] \in {"valid", "moved"} =>
          stage'[w] = stage[w] /\ bin'[w] = bin[w]
    BY <2>4, Zenon
  <2> QED
    BY <2>3, <2>5, <2>6, <2>7, <2>8, Zenon DEF ReleasesInv, hostvars
<1>2. ASSUME UNCHANGED <<ver, bin>>, stage' \in [Uploads -> Stages],
             \A u \in Uploads : stage'[u] # stage[u] =>
               /\ stage[u] \in InFlight /\ stage'[u] # "created" /\ stage'[u] # "moved"
               /\ stage'[u] = "valid" => Required = "" \/ ExtractSigningInfo(bin[u]) = Required
      PROVE  ReleasesInv'
  <2>1. TypeOK'
    BY <1>2, Zenon DEF ReleasesInv, TypeOK, tablevars, hostvars
  <2>2. \A u \in Uploads : stage'[u] # "unused" => stage[u] # "unused"
    BY <1>2, Zenon DEF InFlight
  <2>3. \A u \in Uploads : stage'[u] = "created" => stage[u] = "created"
    BY <1>2, Zenon
  <2> QED
    BY <1>2, <2>1, <2>2, <2>3, Zenon
       DEF ReleasesInv, InstalledIsPublished, OneUploadWins, PublishedIsSigned, tablevars, hostvars
<1>3. ASSUME NEW u \in Uploads, Validate(u) \/ UploadFails(u)
      PROVE  ReleasesInv'
  <2>1. PICK s \in {"valid", "failed"} :
          /\ stage' = [stage EXCEPT ![u] = s] /\ UNCHANGED <<ver, bin>>
          /\ s = "valid" => Required = "" \/ ExtractSigningInfo(bin[u]) = Required
    BY <1>3, Zenon DEF Validate, UploadFails, Goto, ValidateSigningIdentity
  <2>2. stage[u] \in {"checked", "valid"}
    BY <1>3, Zenon DEF Validate, UploadFails
  <2>3. /\ stage' \in [Uploads -> Stages] /\ stage'[u] = s
        /\ \A w \in Uploads \ {u} : stage'[w] = stage[w]
    BY <2>1, Zenon DEF ReleasesInv, TypeOK, Stages, InFlight
  <2> QED  BY <1>2, <2>1, <2>2, <2>3, Zenon DEF InFlight
<1>4. ASSUME Restart
      PROVE  ReleasesInv'
  <2>1. /\ UNCHANGED <<ver, bin>> /\ stage' \in [Uploads -> Stages]
        /\ \A u \in Uploads : stage'[u] # stage[u] => stage[u] \in InFlight /\ stage'[u] = "killed"
    BY <1>4, Zenon DEF Restart, ReleasesInv, TypeOK, Stages
  <2> QED  BY <1>2, <2>1, Zenon
<1>5. ASSUME UNCHANGED reqvars
      PROVE  ReleasesInv'
  BY <1>2, <1>5, Zenon DEF reqvars, ReleasesInv, TypeOK
<1> QED  BY <1>1, <1>3, <1>4, <1>5, Zenon

\* The body is put in place, or what is in place is removed.
LEMMA FileSteps ==
  ASSUME ReleasesInv, NEW u \in Uploads, Rename(u) \/ RemoveFinal(u)
  PROVE  ReleasesInv'
<1>1. PICK s \in {"moved", "failed", "exists"} :
        /\ stage' = [stage EXCEPT ![u] = s]
        /\ s = "moved" => stage[u] = "valid"
  BY Zenon DEF Rename, RemoveFinal, Goto
<1>2. PICK b \in Binaries \cup {None} :
        /\ file' = [file EXCEPT ![ver[u]] = b]
        /\ b # None /\ Required # "" => ExtractSigningInfo(b) = Required
  BY Zenon DEF Rename, RemoveFinal, ReleasesInv, TypeOK
<1>3. stage[u] \in {"valid", "conflicts", "fails"} /\ UNCHANGED <<tablevars, ver, bin, hostvars>>
  BY Zenon DEF Rename, RemoveFinal
<1>4. /\ stage' \in [Uploads -> Stages] /\ stage'[u] = s
      /\ \A w \in Uploads \ {u} : stage'[w] = stage[w]
  BY <1>1, Zenon DEF ReleasesInv, TypeOK, Stages, InFlight
<1>5. ver[u] \in Versions
  BY <1>3, Zenon DEF ReleasesInv, TypeOK
<1>6. /\ file' \in [Versions -> Binaries \cup {None}] /\ file'[ver[u]] = b
      /\ \A v \in Versions \ {ver[u]} : file'[v] = file[v]
  BY <1>2, <1>5, Zenon DEF ReleasesInv, TypeOK
<1>7. TypeOK'
  BY <1>3, <1>4, <1>6, Zenon DEF ReleasesInv, TypeOK, tablevars, hostvars
<1>8. PublishedIsSigned'
  <2>1. ASSUME Required # "", NEW v \in Versions, NEW x \in {row[v], file'[v]} \ {None}
        PROVE  ExtractSigningInfo(x) = Required
    BY <2>1, <1>2, <1>6, Zenon DEF ReleasesInv, PublishedIsSigned
  <2> QED  BY <1>3, <2>1, Zenon DEF PublishedIsSigned, tablevars
<1>9. OneUploadWins' /\ InstalledIsPublished'
  BY <1>3, <1>4, Zenon DEF ReleasesInv, OneUploadWins, InstalledIsPublished, tablevars, hostvars
<1> QED
  BY <1>1, <1>3, <1>4, <1>7, <1>8, <1>9, Zenon DEF ReleasesInv, hostvars

\* The row is written, or refused because the version has one: the version of
\* an upload that was answered 201 has one.
LEMMA RowSteps ==
  ASSUME ReleasesInv, NEW u \in Uploads, InsertRelease(u) \/ InsertFails(u)
  PROVE  ReleasesInv'
<1>1. /\ stage[u] = "moved" /\ UNCHANGED <<file, ver, bin, hostvars>>
      /\ ver[u] \in Versions /\ bin[u] \in Binaries
  BY Zenon DEF InsertRelease, InsertFails, ReleasesInv, TypeOK
<1>2. PICK s \in {"created", "conflicts", "fails"} :
        /\ stage' = [stage EXCEPT ![u] = s]
        /\ \/ row[ver[u]] = None /\ Insert(u)
           \/ s # "created" /\ UNCHANGED tablevars
  BY Zenon DEF InsertRelease, InsertFails, Goto
<1>3. /\ stage' \in [Uploads -> Stages] /\ stage'[u] = s
      /\ \A w \in Uploads \ {u} : stage'[w] = stage[w]
  BY <1>2, Zenon DEF ReleasesInv, TypeOK, Stages, InFlight
<1>4. CASE UNCHANGED tablevars /\ s # "created"
  <2>1. TypeOK'
    BY <1>1, <1>3, <1>4, Zenon DEF ReleasesInv, TypeOK, tablevars, hostvars
  <2>2. OneUploadWins'
    BY <1>1, <1>3, <1>4, Zenon DEF ReleasesInv, OneUploadWins, tablevars
  <2>3. InstalledIsPublished' /\ PublishedIsSigned'
    BY <1>1, <1>4, Zenon DEF ReleasesInv, InstalledIsPublished, PublishedIsSigned, tablevars, hostvars
  <2> QED  BY <1>1, <1>2, <1>3, <2>1, <2>2, <2>3, Zenon DEF ReleasesInv, hostvars
<1>5. CASE row[ver[u]] = None /\ Insert(u)
  <2>1. /\ row' \in [Versions -> Binaries \cup {None}] /\ row'[ver[u]] = bin[u]
        /\ \A v \in Versions \ {ver[u]} : row'[v] = row[v]
    BY <1>1, <1>5, Zenon DEF Insert, ReleasesInv, TypeOK
  <2>2. order' = Append(order, ver[u]) /\ order \in Seq(Versions)
    BY <1>5, Zenon DEF Insert, ReleasesInv, TypeOK
  <2>3. ver[u] \notin ToSet(order)
    BY <1>5, Zenon DEF ReleasesInv, TypeOK
  <2>4. order' \in Seq(Versions) /\ IsInjective(order')
    <3>1. /\ order' \in Seq(Versions) /\ DOMAIN order = 1 .. Len(order) /\ Len(order) \in Nat
          /\ DOMAIN order' = 1 .. Len(order) + 1 /\ order'[Len(order) + 1] = ver[u]
          /\ \A i \in 1 .. Len(order) : order'[i] = order[i]
      BY <1>1, <2>2
    <3>2. \A i \in 1 .. Len(order) : order[i] # ver[u]
      BY <2>3, <3>1, Zenon DEF ToSet
    <3>3. \A i, j \in 1 .. Len(order) : order[i] = order[j] => i = j
      BY <3>1, Zenon DEF ReleasesInv, TypeOK, IsInjective
    <3>4. \A i \in 1 .. Len(order) + 1 : i \in 1 .. Len(order) \/ i = Len(order) + 1
      BY <3>1
    <3> QED  BY <3>1, <3>2, <3>3, <3>4, Zenon DEF IsInjective
  <2>5. ToSet(order') = ToSet(order) \cup {ver[u]}
    BY <1>1, <2>2 DEF ToSet
  <2>6. ToSet(order') = {v \in Versions : row'[v] # None}
    BY <1>1, <2>1, <2>5, ReleasesAssumption, Zenon DEF ReleasesInv, TypeOK
  <2>7. TypeOK'
    BY <1>1, <1>3, <2>1, <2>4, <2>6, Zenon DEF ReleasesInv, TypeOK, hostvars
  <2>8. OneUploadWins'
    <3>1. \A w \in Uploads \ {u} : stage[w] = "created" => ver[w] # ver[u]
      BY <1>5, ReleasesAssumption, Zenon DEF ReleasesInv, OneUploadWins
    <3>2. \A w \in Uploads \ {u} : stage[w] = "created" => row'[ver[w]] = bin[w]
      <4> SUFFICES ASSUME NEW w \in Uploads \ {u}, stage[w] = "created"
                   PROVE  row'[ver[w]] = bin[w]
        BY Zenon
      <4>1. row[ver[w]] = bin[w] /\ ver[w] # ver[u] /\ ver[w] \in Versions
        BY <3>1, Zenon DEF ReleasesInv, OneUploadWins, TypeOK
      <4> QED  BY <2>1, <4>1, Zenon
    <3>3. \A w, x \in Uploads \ {u} :
            stage[w] = "created" /\ stage[x] = "created" /\ x # w => ver[x] # ver[w]
      BY Zenon DEF ReleasesInv, OneUploadWins
    <3> QED  BY <1>1, <1>3, <2>1, <3>1, <3>2, <3>3 DEF OneUploadWins
  <2>9. InstalledIsPublished'
    <3>1. \A v \in Versions : row[v] # None => row'[v] = row[v]
      BY <1>5, <2>1, Zenon
    <3>2. InstalledIsPublished /\ installed' = installed
      BY <1>1, Zenon DEF ReleasesInv, hostvars
    <3> QED  BY <3>1, <3>2, Zenon DEF InstalledIsPublished
  <2>10. PublishedIsSigned'
    <3>1. Required # "" => ExtractSigningInfo(bin[u]) = Required
      BY <1>1, Zenon DEF ReleasesInv
    <3> QED  BY <1>1, <2>1, <3>1, Zenon DEF ReleasesInv, PublishedIsSigned
  <2> QED  BY <1>1, <1>2, <1>3, <2>7, <2>8, <2>9, <2>10, Zenon DEF ReleasesInv, hostvars
<1> QED  BY <1>2, <1>4, <1>5, Zenon

\* A Mac runs setup-host.sh: what it installs is the binary of the version it
\* was told.
LEMMA HostSteps ==
  ASSUME ReleasesInv, NEW h \in Hosts,
         handleReleaseLatest(h) \/ handleReleaseDownload(h) \/ InstallWorker(h)
  PROVE  ReleasesInv'
<1>1. UNCHANGED <<tablevars, file, reqvars>>
  BY Zenon DEF handleReleaseLatest, handleReleaseDownload, InstallWorker
<1>2. PublishedIsSigned' /\ OneUploadWins'
  BY <1>1, Zenon DEF ReleasesInv, PublishedIsSigned, OneUploadWins, tablevars, reqvars
<1>3. ASSUME NEW v \in Versions \cup {None}, NEW b \in Binaries \cup {None},
             want' = [want EXCEPT ![h] = v], got' = [got EXCEPT ![h] = b], b # None => v # None,
             installed' \in [Hosts -> Binaries \cup {None}], InstalledIsPublished'
      PROVE  ReleasesInv'
  <2>1. TypeOK'
    BY <1>1, <1>3, Zenon DEF ReleasesInv, TypeOK, tablevars, reqvars
  <2>2. \A i \in Hosts : got'[i] # None => want'[i] # None
    BY <1>3, Zenon DEF ReleasesInv, TypeOK
  <2> QED  BY <1>1, <1>2, <1>3, <2>1, <2>2, Zenon DEF ReleasesInv, reqvars
<1>4. CASE handleReleaseLatest(h)
  <2>1. Last(order) \in Versions
    <3>1. order \in Seq(Versions) /\ order # <<>>
      BY <1>4, Zenon DEF handleReleaseLatest, ReleasesInv, TypeOK
    <3>2. Len(order) \in 1 .. Len(order)
      BY <3>1
    <3> QED  BY <3>1, <3>2 DEF Last
  <2>2. installed' = installed /\ InstalledIsPublished'
    BY <1>1, <1>4, Zenon DEF handleReleaseLatest, ReleasesInv, InstalledIsPublished, tablevars
  <2> QED  BY <1>3, <1>4, <2>1, <2>2, Zenon DEF handleReleaseLatest, ReleasesInv, TypeOK
<1>5. CASE handleReleaseDownload(h)
  <2>1. want[h] \in Versions /\ file[want[h]] \in Binaries \cup {None}
    BY <1>5, Zenon DEF handleReleaseDownload, ReleasesInv, TypeOK
  <2>2. installed' = installed /\ InstalledIsPublished'
    BY <1>1, <1>5, Zenon DEF handleReleaseDownload, ReleasesInv, InstalledIsPublished, tablevars
  <2>3. want' = [want EXCEPT ![h] = IF file[want[h]] = None THEN None ELSE want[h]]
    BY <1>5, Zenon DEF handleReleaseDownload, ReleasesInv, TypeOK
  <2> QED  BY <1>3, <1>5, <2>1, <2>2, <2>3, Zenon DEF handleReleaseDownload, ReleasesInv, TypeOK
<1>6. CASE InstallWorker(h)
  <2>1. want[h] \in Versions /\ got[h] \in Binaries
    BY <1>6, Zenon DEF InstallWorker, ReleasesInv, TypeOK
  <2>2. \/ installed' = installed
        \/ installed' = [installed EXCEPT ![h] = got[h]] /\ got[h] = row[want[h]]
    BY <1>6, Zenon DEF InstallWorker
  <2>3. installed' \in [Hosts -> Binaries \cup {None}]
    BY <2>1, <2>2, Zenon DEF ReleasesInv, TypeOK
  <2>4. InstalledIsPublished'
    BY <1>1, <2>1, <2>2, Zenon DEF ReleasesInv, TypeOK, InstalledIsPublished, tablevars
  <2> QED  BY <1>3, <1>6, <2>3, <2>4, Zenon DEF InstallWorker
<1> QED  BY <1>4, <1>5, <1>6, Zenon

\* Every step keeps the invariant.
LEMMA NextReleases == ReleasesInv /\ [Next]_vars => ReleasesInv'
<1> SUFFICES ASSUME ReleasesInv, [Next]_vars PROVE ReleasesInv'
  BY Zenon
<1>1. CASE \E u \in Uploads : Upload(u) \/ Validate(u) \/ UploadFails(u)
  BY <1>1, WaitingSteps, Zenon DEF Upload, Validate, UploadFails
<1>2. CASE Restart \/ UNCHANGED vars
  BY <1>2, WaitingSteps, Zenon DEF Restart, vars
<1>3. CASE \E u \in Uploads : Rename(u) \/ RemoveFinal(u)
  BY <1>3, FileSteps, Zenon
<1>4. CASE \E u \in Uploads : InsertRelease(u) \/ InsertFails(u)
  BY <1>4, RowSteps, Zenon
<1>5. CASE \E h \in Hosts : handleReleaseLatest(h) \/ handleReleaseDownload(h) \/ InstallWorker(h)
  BY <1>5, HostSteps, Zenon
<1> QED  BY <1>1, <1>2, <1>3, <1>4, <1>5, Zenon DEF Next

\* The inductive invariant of the release store.
THEOREM ReleasesAgree == Spec => []ReleasesInv
BY InitReleases, NextReleases, PTL DEF Spec

\* Two uploads of one version may both have been found missing and both have
\* renamed their file: one of them is answered 201, and its row stays.
THEOREM UploadsExclude == Spec => []OneUploadWins
<1>1. ReleasesInv => OneUploadWins
  BY Zenon DEF ReleasesInv
<1> QED  BY <1>1, ReleasesAgree, PTL

\* A Mac never installs a body that was replaced under the version it asked for.
THEOREM InstallsArePublished == Spec => []InstalledIsPublished
<1>1. ReleasesInv => InstalledIsPublished
  BY Zenon DEF ReleasesInv
<1> QED  BY <1>1, ReleasesAgree, PTL

\* ValidateSigningIdentity stands before every rename and every insert.
THEOREM SignedBeforePublished == Spec => []PublishedIsSigned
<1>1. ReleasesInv => PublishedIsSigned
  BY Zenon DEF ReleasesInv
<1> QED  BY <1>1, ReleasesAgree, PTL

\* The lookup turns an upload of a settled version away, so no step of anyone
\* touches its row or its file, and none is left in progress.
THEOREM SettledReleasesStay == Spec => SettledReleaseStays
<1>1. ReleasesInv /\ [Next]_vars =>
        [\A v \in Versions : (row[v] # None /\ file[v] = row[v] /\ Quiet(v)) =>
           row'[v] = row[v] /\ file'[v] = file[v] /\ Quiet(v)']_vars
  <2> SUFFICES ASSUME ReleasesInv, Next, NEW v \in Versions, row[v] # None, Quiet(v)
               PROVE  row'[v] = row[v] /\ file'[v] = file[v] /\ Quiet(v)'
    BY Zenon
  <2>1. ASSUME NEW u \in Uploads, Upload(u)
        PROVE  row'[v] = row[v] /\ file'[v] = file[v] /\ Quiet(v)'
    <3>1. PICK x \in Versions, s \in {"exists", "checked", "failed"} :
            /\ ver' = [ver EXCEPT ![u] = x] /\ stage' = [stage EXCEPT ![u] = s]
            /\ s = "checked" => row[x] = None
      BY <2>1, Zenon DEF Upload
    <3>2. x = v => s \notin InFlight
      BY <3>1, Zenon DEF InFlight
    <3>3. Quiet(v)'
      BY <3>1, <3>2, Zenon DEF Quiet, ReleasesInv, TypeOK
    <3> QED  BY <2>1, <3>3, Zenon DEF Upload, tablevars
  <2>2. ASSUME NEW u \in Uploads, NEW s \in Stages, stage[u] \in InFlight, ver' = ver,
               stage' = [stage EXCEPT ![u] = s]
        PROVE  ver[u] # v /\ Quiet(v)'
    BY <2>2, Zenon DEF Quiet, ReleasesInv, TypeOK
  <2>3. ASSUME NEW u \in Uploads, Validate(u) \/ UploadFails(u) \/ Rename(u)
                                  \/ InsertRelease(u) \/ InsertFails(u) \/ RemoveFinal(u)
        PROVE  row'[v] = row[v] /\ file'[v] = file[v] /\ Quiet(v)'
    <3>1. /\ stage[u] \in InFlight /\ ver' = ver
          /\ \E s \in Stages : stage' = [stage EXCEPT ![u] = s]
      BY <2>3, Zenon DEF Validate, UploadFails, Rename, InsertRelease, InsertFails, RemoveFinal, Goto,
                  Stages, InFlight
    <3>2. ver[u] # v /\ Quiet(v)'
      BY <2>2, <3>1, Zenon
    <3>3. row' = row \/ row' = [row EXCEPT ![ver[u]] = bin[u]]
      BY <2>3, Zenon DEF Validate, UploadFails, Rename, InsertRelease, InsertFails, RemoveFinal, Insert,
                  tablevars
    <3>4. file' = file \/ \E b \in {bin[u], None} : file' = [file EXCEPT ![ver[u]] = b]
      BY <2>3, Zenon DEF Validate, UploadFails, Rename, InsertRelease, InsertFails, RemoveFinal
    <3> QED  BY <3>2, <3>3, <3>4, Zenon DEF ReleasesInv, TypeOK
  <2>4. ASSUME Restart
        PROVE  row'[v] = row[v] /\ file'[v] = file[v] /\ Quiet(v)'
    BY <2>4, Zenon DEF Restart, Quiet, InFlight, tablevars
  <2>5. ASSUME UNCHANGED <<tablevars, file, reqvars>>
        PROVE  row'[v] = row[v] /\ file'[v] = file[v] /\ Quiet(v)'
    BY <2>5, Zenon DEF Quiet, tablevars, reqvars
  <2> QED
    BY <2>1, <2>3, <2>4, <2>5, Zenon
       DEF Next, handleReleaseLatest, handleReleaseDownload, InstallWorker
<1> QED  BY <1>1, ReleasesAgree, PTL DEF Spec, SettledReleaseStays
=============================================================================
