------------------------------- MODULE Releases -------------------------------
(***************************************************************************)
(* Release distribution: Store.Upload and the release handlers             *)
(* (server/internal/release, server/internal/api/rest/releases.go,         *)
(* server/internal/db/releases.go), and the installation of the worker     *)
(* binary by install/setup-host.sh.                                        *)
(*                                                                         *)
(* An upload is a check of the table, a rename on disk and an insert, with *)
(* no lock around them, and one path per version.  A binary stands for its *)
(* content, hence for its SHA-256.                                         *)
(***************************************************************************)
EXTENDS Integers, Sequences, SequencesExt

CONSTANTS
  Versions,
  Binaries,
  Form,       \* what macho.Open finds in each binary
  Required,   \* required_signing_identity, "" to accept anything
  Uploads,    \* bound on upload requests
  Hosts,      \* the Macs that run setup-host.sh
  None        \* no row, no file

ASSUME ReleasesAssumption == None \notin Binaries \cup Versions

VARIABLES
  row,        \* releases: the binary whose hash is recorded for each version
  order,      \* the versions by uploaded_at
  file,       \* <storage>/<version>/minicontrol-worker
  stage,      \* of each upload
  ver,        \* its version
  bin,        \* its body
  want,       \* the version and the hash setup-host.sh read from /latest
  got,        \* what it has downloaded
  installed   \* /usr/local/bin/minicontrol-worker

tablevars == <<row, order>>
reqvars == <<stage, ver, bin>>
hostvars == <<want, got, installed>>
vars == <<tablevars, file, reqvars, hostvars>>

\* Stages before the handler has answered.
InFlight == {"checked", "valid", "moved", "conflicts", "fails"}

Stages == InFlight \cup {"unused", "created", "exists", "failed", "killed"}

\* The type of the state.
TypeOK ==
  /\ row \in [Versions -> Binaries \cup {None}]
  /\ order \in Seq(Versions)
  /\ IsInjective(order)
  /\ ToSet(order) = {v \in Versions : row[v] # None}
  /\ file \in [Versions -> Binaries \cup {None}]
  /\ stage \in [Uploads -> Stages]
  /\ ver \in [Uploads -> Versions \cup {None}]
  /\ bin \in [Uploads -> Binaries \cup {None}]
  /\ want \in [Hosts -> Versions \cup {None}]
  /\ got \in [Hosts -> Binaries \cup {None}]
  /\ installed \in [Hosts -> Binaries \cup {None}]

Init ==
  /\ row = [v \in Versions |-> None]
  /\ order = <<>>
  /\ file = [v \in Versions |-> None]
  /\ stage = [u \in Uploads |-> "unused"]
  /\ ver = [u \in Uploads |-> None]
  /\ bin = [u \in Uploads |-> None]
  /\ want = [h \in Hosts |-> None]
  /\ got = [h \in Hosts |-> None]
  /\ installed = [h \in Hosts |-> None]

-----------------------------------------------------------------------------
(* codesign.go.  Form[b] is <<>> for what is no Mach-O file, and otherwise   *)
(* the slices of the binary, one for a thin file.  A slice has a flag for    *)
(* LC_CODE_SIGNATURE, a team ("" for none) and a CMS signature: "none",      *)
(* "bad" if it cannot be parsed, or its certificates.                        *)

Team == "(team, id)"

\* The first certificate that is no CA names the signer, or else the first.
extractCNFromCMS(certs) ==
  LET leaves == SelectSeq(certs, LAMBDA c : ~c.ca) IN
  IF leaves = <<>> THEN certs[1].cn ELSE leaves[1].cn

\* The name of the signer of a slice; "" if there is none.
CommonName(s) ==
  CASE s.cms = "none" -> ""
    [] s.cms = "bad" -> IF s.team = "" THEN "" ELSE Team
    [] OTHER -> extractCNFromCMS(s.certs)

\* Does extractFromFile succeed: neither unsigned nor signed ad hoc?
extractFromFile(s) == s.signed /\ ~(s.team = "" /\ CommonName(s) = "")

\* Only the first slice of a universal binary is read.
ExtractSigningInfo(b) ==
  IF Form[b] # <<>> /\ extractFromFile(Form[b][1]) THEN CommonName(Form[b][1]) ELSE ""

ValidateSigningIdentity(b) ==
  /\ Form[b] # <<>>
  /\ extractFromFile(Form[b][1])
  /\ ExtractSigningInfo(b) = Required

-----------------------------------------------------------------------------
(* Store.Upload *)

Goto(u, s) == stage' = [stage EXCEPT ![u] = s]

\* Mutant of Upload: the version is not looked up.
MutNoLookup(u) ==
  /\ stage[u] = "unused"
  /\ \E v \in Versions, b \in Binaries :
       /\ ver' = [ver EXCEPT ![u] = v]
       /\ bin' = [bin EXCEPT ![u] = b]
       /\ stage' \in {[stage EXCEPT ![u] = s] : s \in {"checked", "failed"}}
  /\ UNCHANGED <<tablevars, file, hostvars>>

\* A request arrives and its version is looked up; the lookup may fail.
Upload(u) ==
  /\ stage[u] = "unused"
  /\ \E v \in Versions, b \in Binaries :
       /\ ver' = [ver EXCEPT ![u] = v]
       /\ bin' = [bin EXCEPT ![u] = b]
       /\ stage' \in {[stage EXCEPT ![u] = s] :
                        s \in {IF row[v] # None THEN "exists" ELSE "checked", "failed"}}
  /\ UNCHANGED <<tablevars, file, hostvars>>

\* Mutant of Validate: the signature is not looked at.
MutAcceptAll(u) ==
  /\ stage[u] = "checked"
  /\ Goto(u, "valid")
  /\ UNCHANGED <<tablevars, file, ver, bin, hostvars>>

\* The body is in a temporary file of its own, and its signature is checked.
Validate(u) ==
  /\ stage[u] = "checked"
  /\ Goto(u, IF Required = "" \/ ValidateSigningIdentity(bin[u]) THEN "valid" ELSE "failed")
  /\ UNCHANGED <<tablevars, file, ver, bin, hostvars>>

\* The body breaks off, or the disk refuses the directory or the rename; the
\* deferred call removes the temporary file.
UploadFails(u) ==
  /\ stage[u] \in {"checked", "valid"}
  /\ Goto(u, "failed")
  /\ UNCHANGED <<tablevars, file, ver, bin, hostvars>>

\* The rename replaces what is there.  If chmod fails then, the file stays.
Rename(u) ==
  /\ stage[u] = "valid"
  /\ file' = [file EXCEPT ![ver[u]] = bin[u]]
  /\ stage' \in {[stage EXCEPT ![u] = s] : s \in {"moved", "failed"}}
  /\ UNCHANGED <<tablevars, ver, bin, hostvars>>

Insert(u) ==
  /\ row' = [row EXCEPT ![ver[u]] = bin[u]]
  /\ order' = Append(order, ver[u])

\* Mutant of InsertRelease: the version is not UNIQUE in the table, the last
\* insert counts.
MutReplaceRow(u) ==
  /\ stage[u] = "moved"
  /\ Insert(u)
  /\ Goto(u, "created")
  /\ UNCHANGED <<file, ver, bin, hostvars>>

\* The version is UNIQUE in the table.
InsertRelease(u) ==
  /\ stage[u] = "moved"
  /\ IF row[ver[u]] = None
       THEN Insert(u) /\ Goto(u, "created")
       ELSE UNCHANGED tablevars /\ Goto(u, "conflicts")
  /\ UNCHANGED <<file, ver, bin, hostvars>>

\* The insert returns another error, and may have been done all the same: the
\* request was cancelled, or the connection lost, before the answer.
InsertFails(u) ==
  /\ stage[u] = "moved"
  /\ Goto(u, "fails")
  /\ \/ UNCHANGED tablevars
     \/ row[ver[u]] = None /\ Insert(u)
  /\ UNCHANGED <<file, ver, bin, hostvars>>

\* After an insert that returned an error, os.Remove of the final path.
RemoveFinal(u) ==
  /\ stage[u] \in {"conflicts", "fails"}
  /\ file' = [file EXCEPT ![ver[u]] = None]
  /\ Goto(u, IF stage[u] = "conflicts" THEN "exists" ELSE "failed")
  /\ UNCHANGED <<tablevars, ver, bin, hostvars>>

\* The server is restarted: uploads end where they are.
Restart ==
  /\ stage' = [u \in Uploads |-> IF stage[u] \in InFlight THEN "killed" ELSE stage[u]]
  /\ UNCHANGED <<tablevars, file, ver, bin, hostvars>>

-----------------------------------------------------------------------------
(* setup-host.sh *)

\* GET /releases/latest: the row inserted last.
handleReleaseLatest(h) ==
  /\ order # <<>>
  /\ want' = [want EXCEPT ![h] = Last(order)]
  /\ got' = [got EXCEPT ![h] = None]
  /\ UNCHANGED <<tablevars, file, reqvars, installed>>

\* GET /releases/download: the file as it is when ServeFile opens it.  Without
\* one the answer is 404 and the script ends.
handleReleaseDownload(h) ==
  /\ want[h] # None
  /\ got[h] = None
  /\ got' = [got EXCEPT ![h] = file[want[h]]]
  /\ want' = IF file[want[h]] = None THEN [want EXCEPT ![h] = None] ELSE want
  /\ UNCHANGED <<tablevars, file, reqvars, installed>>

\* Mutant of InstallWorker: no comparison of the hashes.
MutSkipChecksum(h) ==
  /\ got[h] # None
  /\ installed' \in {installed, [installed EXCEPT ![h] = got[h]]}
  /\ want' = [want EXCEPT ![h] = None]
  /\ got' = [got EXCEPT ![h] = None]
  /\ UNCHANGED <<tablevars, file, reqvars>>

\* A download whose hash is the one /latest gave is installed, unless codesign
\* rejects it (or the script is stopped); the script ends.  A row never
\* changes, so the hash that was read is still row[want[h]].
InstallWorker(h) ==
  /\ got[h] # None
  /\ installed' \in {installed} \cup
       {[installed EXCEPT ![h] = b] : b \in {got[h]} \cap {row[want[h]]}}
  /\ want' = [want EXCEPT ![h] = None]
  /\ got' = [got EXCEPT ![h] = None]
  /\ UNCHANGED <<tablevars, file, reqvars>>

-----------------------------------------------------------------------------

Next ==
  \/ \E u \in Uploads :
       \/ Upload(u) \/ Validate(u) \/ UploadFails(u) \/ Rename(u)
       \/ InsertRelease(u) \/ InsertFails(u) \/ RemoveFinal(u)
  \/ Restart
  \/ \E h \in Hosts :
       handleReleaseLatest(h) \/ handleReleaseDownload(h) \/ InstallWorker(h)

Spec == Init /\ [][Next]_vars

-----------------------------------------------------------------------------
(* Properties *)

\* Whatever uploads of one version do to each other's file, a Mac installs only
\* a binary that Upload recorded under some version: the check of the hash in
\* setup-host.sh makes up for the file that was replaced between /latest and
\* /download.
InstalledIsPublished ==
  \A h \in Hosts : installed[h] # None => \E v \in Versions : row[v] = installed[h]

\* Nothing is ever in place for download, or recorded, that does not carry the
\* required signature, also while uploads overlap and after restarts.
PublishedIsSigned ==
  Required # "" =>
    \A v \in Versions : \A b \in {row[v], file[v]} \ {None} : ExtractSigningInfo(b) = Required

\* Of the uploads of one version, at most one is answered 201, and the table
\* records the binary of that one.
OneUploadWins ==
  \A u \in Uploads : stage[u] = "created" =>
    /\ row[ver[u]] = bin[u]
    /\ \A w \in Uploads \ {u} : stage[w] = "created" => ver[w] # ver[u]

\* What makes the three properties above inductive: an upload has a version and
\* a body, its signature was found right before its body is put in place, and a
\* Mac has downloaded only a version that /latest named.
ReleasesInv ==
  /\ TypeOK
  /\ \A u \in Uploads : stage[u] # "unused" => ver[u] # None /\ bin[u] # None
  /\ \A u \in Uploads : stage[u] \in {"valid", "moved"} /\ Required # "" =>
       ExtractSigningInfo(bin[u]) = Required
  /\ \A h \in Hosts : got[h] # None => want[h] # None
  /\ InstalledIsPublished /\ OneUploadWins /\ PublishedIsSigned

\* No upload of the version is between its lookup and its answer.
Quiet(v) == \A u \in Uploads : ver[u] = v => stage[u] \notin InFlight

\* A release that is in place once no upload of its version is in progress
\* stays in place: the lookup turns later uploads away before they touch the
\* file, so the state below is never left.
SettledReleaseStays ==
  [][\A v \in Versions : (row[v] # None /\ file[v] = row[v] /\ Quiet(v)) =>
       row'[v] = row[v] /\ file'[v] = file[v] /\ Quiet(v)']_vars

=============================================================================
