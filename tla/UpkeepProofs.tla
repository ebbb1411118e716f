---------------------------- MODULE UpkeepProofs ----------------------------
(***************************************************************************)
(* Proofs about what keeps a home and its services in order:               *)
(*   HomeSnapshot  an import restores one snapshot, over what the          *)
(*                 destination held.  Every manifest in sight, in a        *)
(*                 temporary directory, in the output or read by the       *)
(*                 import, is one that an export has sealed, and an export *)
(*                 seals once; and the import touches only listed files.   *)
(*   Stages        the log of the principals tells what happened, gates    *)
(*                 and all.                                                *)
(*   Quarantine    the monitor of a process counts what was recorded, and  *)
(*                 its files say what it saw.                              *)
(*   Voice         the circuit and the privacy gates of speech hold turn   *)
(*                 after turn.                                             *)
(* Each part has its inductive invariant, the lemmas for the actions that  *)
(* could disturb it, and its theorem.                                      *)
(***************************************************************************)
EXTENDS HomeSnapshot, Stages, Quarantine, Voice, FiniteSetTheorems, SequenceTheorems,
        WellFoundedInduction, TLAPS

-----------------------------------------------------------------------------
(* The snapshot of a home.                                                 *)

\* What the exports have sealed so far.
Sealed == {sealed[x] : x \in Exports} \ {NoFile}

SnapshotTypes ==
    /\ temp \in [Exports -> Directories]
    /\ exporting \in [Exports -> {"idle", "copying", "publishing", "fallback",
                                  "exported", "failed", "killed"}]
    /\ sealed \in [Exports -> Copies \cup {NoFile}]
    /\ output \in Directories \cup {NoFile}
    /\ home \in Copies
    /\ restored \in Copies

\* The import under way leaves the files alone that its manifest does not list.
Untouched ==
    \A f \in HomeFiles \ FilesOf(manifest) : restored[f] = before[f]

\* What a snapshot makes of a destination.
Restored(m) == [f \in HomeFiles |-> IF m[f] # NoFile THEN m[f] ELSE before[f]]

ImportInv ==
    /\ importing = "reading" => restored = before
    /\ importing = "copying" => manifest \in Sealed /\ todo \subseteq FilesOf(manifest) /\ Untouched
    /\ importing = "imported" => \E m \in Sealed : restored = Restored(m)

\* The inductive invariant.
SealedInv ==
    /\ SnapshotTypes
    /\ \A x \in Exports : exporting[x] \in {"idle", "copying"} => sealed[x] = NoFile
    /\ \A x \in Exports : temp[x].manifest \in Sealed \cup {NoFile}
    /\ output # NoFile => output.manifest \in Sealed \cup {NoFile}
    /\ ImportInv

LEMMA EmptyIsDirectory == EmptyDirectory \in Directories
  BY DEF EmptyDirectory, Directories, Nothing, Copies

LEMMA SealedInit == SnapshotInit => SealedInv
<1> SUFFICES ASSUME SnapshotInit PROVE SealedInv
  OBVIOUS
<1>1. SnapshotTypes
  BY EmptyIsDirectory DEF SnapshotInit, SnapshotTypes
<1>2. \A x \in Exports : temp[x].manifest = NoFile
  BY DEF SnapshotInit, EmptyDirectory
<1> QED
  BY <1>1, <1>2 DEF SnapshotInit, SealedInv, ImportInv

\* An export that is under way touches neither the import nor, but for Seal,
\* what is sealed.
LEMMA ExportStep ==
  ASSUME SealedInv, NEW x \in Exports,
         \/ BeginExport(x) \/ Replace(x) \/ PublishFails(x)
         \/ FinishFallback(x) \/ KillExport(x)
         \/ \E f \in HomeFiles : CopyFile(x, f)
         \/ \E e \in HomeFiles \cup {Manifest} : CopyOut(x, e)
  PROVE  SealedInv'
<1>1. UNCHANGED <<sealed, importing, before, manifest, todo, restored, home>>
  BY DEF BeginExport, CopyFile, Replace, PublishFails, CopyOut, FinishFallback, KillExport,
         importVars
<1>2. \/ UNCHANGED exporting
      \/ \E s \in {"copying", "fallback", "exported", "failed", "killed"} :
            /\ exporting' = [exporting EXCEPT ![x] = s]
            /\ s = "copying" => exporting[x] = "idle"
  BY DEF BeginExport, CopyFile, Replace, PublishFails, CopyOut, FinishFallback, KillExport, Fail
<1>3. \/ UNCHANGED temp
      \/ temp' = [temp EXCEPT ![x] = EmptyDirectory]
      \/ \E f \in HomeFiles : temp' = [temp EXCEPT ![x].files[f] = home[f]]
  BY DEF BeginExport, CopyFile, Replace, PublishFails, CopyOut, FinishFallback, KillExport, Fail
<1>4. \/ UNCHANGED output
      \/ output' \in {NoFile, EmptyDirectory, temp[x]}
      \/ output # NoFile /\ output' = [output EXCEPT !.manifest = temp[x].manifest]
      \/ \E f \in HomeFiles :
            output # NoFile /\ output' = [output EXCEPT !.files[f] = temp[x].files[f]]
  BY DEF BeginExport, CopyFile, Replace, PublishFails, CopyOut, FinishFallback, KillExport, Fail,
         exportVars
<1>5. /\ exporting' \in [Exports -> {"idle", "copying", "publishing", "fallback",
                                      "exported", "failed", "killed"}]
      /\ \A y \in Exports : exporting'[y] \in {"idle", "copying"} => sealed'[y] = NoFile
  BY <1>1, <1>2 DEF SealedInv, SnapshotTypes
<1>6. /\ temp' \in [Exports -> Directories]
      /\ \A y \in Exports : temp'[y].manifest \in {temp[y].manifest, NoFile}
  <2>1. CASE UNCHANGED temp
    BY <2>1 DEF SealedInv, SnapshotTypes
  <2>2. CASE temp' = [temp EXCEPT ![x] = EmptyDirectory]
    BY <2>2, EmptyIsDirectory DEF SealedInv, SnapshotTypes, EmptyDirectory
  <2>3. ASSUME NEW f \in HomeFiles, temp' = [temp EXCEPT ![x].files[f] = home[f]]
        PROVE  /\ temp' \in [Exports -> Directories]
               /\ \A y \in Exports : temp'[y].manifest = temp[y].manifest
    <3>1. home[f] \in HomeContents \cup {NoFile} /\ temp[x] \in Directories
      BY DEF SealedInv, SnapshotTypes, Copies
    <3>2. [temp[x].files EXCEPT ![f] = home[f]] \in Copies
      BY <3>1 DEF Directories, Copies
    <3>3. ASSUME NEW y \in Exports
          PROVE  temp'[y] \in Directories /\ temp'[y].manifest = temp[y].manifest
      <4>1. temp[y] \in Directories
        BY DEF SealedInv, SnapshotTypes
      <4>2. CASE y # x
        BY <2>3, <4>1, <4>2 DEF SealedInv, SnapshotTypes
      <4>3. CASE y = x
        <5>1. temp'[y] = [temp[x] EXCEPT !.files = [temp[x].files EXCEPT ![f] = home[f]]]
          BY <2>3, <4>3 DEF SealedInv, SnapshotTypes
        <5> QED
          BY <3>1, <3>2, <4>3, <5>1 DEF Directories
      <4> QED
        BY <4>2, <4>3
    <3>4. temp' = [y \in Exports |-> temp'[y]]
      BY <2>3 DEF SealedInv, SnapshotTypes
    <3> QED
      BY <3>3, <3>4
  <2> QED
    BY <1>3, <2>1, <2>2, <2>3
<1>7. /\ output' \in Directories \cup {NoFile}
      /\ output' # NoFile =>
            \/ output'.manifest \in {NoFile, temp[x].manifest}
            \/ output # NoFile /\ output'.manifest = output.manifest
  <2>1. CASE UNCHANGED output
    BY <2>1 DEF SealedInv, SnapshotTypes
  <2>2. CASE output' \in {NoFile, EmptyDirectory, temp[x]}
    BY <2>2, EmptyIsDirectory DEF SealedInv, SnapshotTypes, EmptyDirectory
  <2>3. CASE output # NoFile /\ output' = [output EXCEPT !.manifest = temp[x].manifest]
    <3>1. temp[x] \in Directories /\ output \in Directories
      BY <2>3 DEF SealedInv, SnapshotTypes
    <3> QED
      BY <2>3, <3>1 DEF Directories
  <2>4. ASSUME NEW f \in HomeFiles, output # NoFile,
               output' = [output EXCEPT !.files[f] = temp[x].files[f]]
        PROVE  output' \in Directories /\ output'.manifest = output.manifest
    <3>1. temp[x] \in Directories /\ output \in Directories
      BY <2>4 DEF SealedInv, SnapshotTypes
    <3>2. [output.files EXCEPT ![f] = temp[x].files[f]] \in Copies
      BY <3>1 DEF Directories, Copies
    <3> QED
      BY <2>4, <3>1, <3>2 DEF Directories
  <2> QED
    BY <1>4, <2>1, <2>2, <2>3, <2>4
<1>8. Sealed' = Sealed
  BY <1>1 DEF Sealed
<1>9. SnapshotTypes'
  BY <1>1, <1>5, <1>6, <1>7 DEF SealedInv, SnapshotTypes
<1>10. \A y \in Exports : temp'[y].manifest \in Sealed \cup {NoFile}
  BY <1>6 DEF SealedInv
<1>11. output' # NoFile => output'.manifest \in Sealed \cup {NoFile}
  BY <1>7 DEF SealedInv
<1>12. ImportInv'
  BY <1>1, <1>8 DEF SealedInv, ImportInv, Untouched, Restored, FilesOf
<1> QED
  BY <1>5, <1>8, <1>9, <1>10, <1>11, <1>12 DEF SealedInv

\* Sealing adds a manifest and takes none away: the export has sealed nothing
\* before.
LEMMA SealStep ==
  ASSUME SealedInv, NEW x \in Exports, Seal(x)
  PROVE  SealedInv'
<1> DEFINE files == temp[x].files
<1>1. /\ exporting[x] = "copying" /\ sealed[x] = NoFile
      /\ temp' = [temp EXCEPT ![x].manifest = files]
      /\ sealed' = [sealed EXCEPT ![x] = files]
      /\ exporting' = [exporting EXCEPT ![x] = "publishing"]
      /\ UNCHANGED <<home, output, importing, before, manifest, todo, restored>>
  BY DEF Seal, ManifestOf, SealedInv, importVars
<1>2. temp[x] \in Directories /\ files \in Copies
  BY DEF SealedInv, SnapshotTypes, Directories
<1>3. \A m \in Sealed : m \in Sealed'
  BY <1>1 DEF Sealed, SealedInv, SnapshotTypes
<1>4. files \in Sealed' \cup {NoFile}
  BY <1>1 DEF Sealed, SealedInv, SnapshotTypes
<1>5. ASSUME NEW y \in Exports
      PROVE  /\ temp'[y] \in Directories
             /\ temp'[y].manifest \in {temp[y].manifest, files}
  <2>1. CASE y = x
    <3>1. temp'[y] = [temp[x] EXCEPT !.manifest = files]
      BY <1>1, <2>1 DEF SealedInv, SnapshotTypes
    <3> QED
      BY <1>2, <3>1 DEF Directories
  <2>2. CASE y # x
    BY <1>1, <2>2 DEF SealedInv, SnapshotTypes
  <2> QED
    BY <2>1, <2>2
<1>6. SnapshotTypes'
  <2>1. temp' = [y \in Exports |-> temp'[y]]
    BY <1>1 DEF SealedInv, SnapshotTypes
  <2> HIDE DEF files
  <2> QED
    BY <1>1, <1>2, <1>5, <2>1 DEF SealedInv, SnapshotTypes
<1>7. \A y \in Exports : exporting'[y] \in {"idle", "copying"} => sealed'[y] = NoFile
  BY <1>1 DEF SealedInv, SnapshotTypes
<1> HIDE DEF files
<1>8. \A y \in Exports : temp'[y].manifest \in Sealed' \cup {NoFile}
  BY <1>3, <1>4, <1>5 DEF SealedInv
<1>9. output' # NoFile => output'.manifest \in Sealed' \cup {NoFile}
  BY <1>1, <1>3 DEF SealedInv
<1>10. ImportInv'
  <2>1. /\ Untouched' <=> Untouched
        /\ FilesOf(manifest)' = FilesOf(manifest)
        /\ \A m \in Sealed : Restored(m)' = Restored(m)
    BY <1>1 DEF Untouched, Restored, FilesOf
  <2> QED
    BY <1>1, <1>3, <2>1 DEF SealedInv, ImportInv
<1> QED
  BY <1>6, <1>7, <1>8, <1>9, <1>10 DEF SealedInv

\* The import and the gateway leave the exports alone; the import takes its
\* manifest from the output, copies what it lists, and reports success only
\* when all of that is there.
LEMMA ImportStep ==
  ASSUME SealedInv,
         \/ \E allow \in BOOLEAN : BeginImport(allow)
         \/ ReadManifest \/ FinishImport \/ KillImport
         \/ \E f \in HomeFiles : CopyIn(f)
         \/ \E f \in HomeFiles, c \in HomeContents \cup {NoFile} : GatewayWrites(f, c)
         \/ UNCHANGED snapshotVars
  PROVE  SealedInv'
<1>1. UNCHANGED <<temp, exporting, sealed, output>>
  BY DEF BeginImport, ReadManifest, FinishImport, KillImport, CopyIn, GatewayWrites,
         snapshotVars, exportVars
<1>2. Sealed' = Sealed
  BY <1>1 DEF Sealed
<1>3. home' \in Copies
  BY DEF BeginImport, ReadManifest, FinishImport, KillImport, CopyIn, GatewayWrites,
         snapshotVars, SealedInv, SnapshotTypes, Copies
<1>4. restored' \in Copies /\ ImportInv'
  <2>1. CASE UNCHANGED <<importing, before, manifest, todo, restored>>
    BY <1>2, <2>1 DEF SealedInv, SnapshotTypes, ImportInv, Untouched, Restored, FilesOf
  <2>2. ASSUME NEW allow \in BOOLEAN, BeginImport(allow)
        PROVE  restored' \in Copies /\ ImportInv'
    BY <2>2 DEF BeginImport, SealedInv, SnapshotTypes, ImportInv
  <2>3. CASE ReadManifest
    <3>1. restored' \in Copies /\ restored' = before'
      BY <2>3 DEF ReadManifest, SealedInv, SnapshotTypes, ImportInv
    <3>2. \/ importing' = "idle"
          \/ /\ importing' = "copying" /\ output # NoFile /\ output.manifest # NoFile
             /\ manifest' = output.manifest /\ todo' = FilesOf(manifest')
      BY <2>3 DEF ReadManifest
    <3> QED
      BY <1>2, <3>1, <3>2 DEF SealedInv, ImportInv, Untouched, FilesOf
  <2>4. ASSUME NEW f \in HomeFiles, CopyIn(f)
        PROVE  restored' \in Copies /\ ImportInv'
    <3>1. /\ importing = "copying" /\ f \in FilesOf(manifest) /\ restored \in Copies
          /\ manifest \in Sealed /\ todo \subseteq FilesOf(manifest) /\ Untouched
          /\ UNCHANGED <<manifest, before>>
      BY <2>4 DEF CopyIn, SealedInv, SnapshotTypes, ImportInv
    <3>2. CASE importing' = "idle" /\ UNCHANGED restored
      BY <3>1, <3>2 DEF ImportInv
    <3>3. CASE /\ UNCHANGED importing /\ todo' = todo \ {f}
               /\ CanCopy(f) /\ restored' = [restored EXCEPT ![f] = output.files[f]]
      <4>1. output.files[f] \in HomeContents
        BY <3>3 DEF CanCopy, SealedInv, SnapshotTypes, Directories, Copies
      <4>2. restored' \in Copies
        BY <3>1, <3>3, <4>1 DEF Copies
      <4>3. Untouched'
        BY <3>1, <3>3 DEF Untouched, Copies, FilesOf
      <4> QED
        BY <1>2, <3>1, <3>3, <4>2, <4>3 DEF ImportInv, FilesOf
    <3> QED
      BY <2>4, <3>2, <3>3 DEF CopyIn
  <2>5. CASE FinishImport
    <3>1. /\ importing = "copying" /\ restored \in Copies /\ manifest \in Sealed /\ Untouched
          /\ UNCHANGED <<manifest, before, restored>>
          /\ importing' = IF HashesMatch THEN "imported" ELSE "idle"
      BY <2>5 DEF FinishImport, SealedInv, SnapshotTypes, ImportInv
    <3>2. HashesMatch => restored = Restored(manifest)
      BY <3>1 DEF HashesMatch, Restored, Untouched, FilesOf, Copies
    <3> QED
      BY <1>2, <3>1, <3>2 DEF ImportInv, Restored
  <2>6. CASE KillImport
    BY <2>6 DEF KillImport, SealedInv, SnapshotTypes, ImportInv
  <2>7. (\E f \in HomeFiles, c \in HomeContents \cup {NoFile} : GatewayWrites(f, c))
           => UNCHANGED <<importing, before, manifest, todo, restored>>
    BY DEF GatewayWrites, importVars
  <2>8. UNCHANGED snapshotVars => UNCHANGED <<importing, before, manifest, todo, restored>>
    BY DEF snapshotVars, importVars
  <2> QED
    BY <2>1, <2>2, <2>3, <2>4, <2>5, <2>6, <2>7, <2>8
<1> QED
  BY <1>1, <1>2, <1>3, <1>4 DEF SealedInv, SnapshotTypes

\* An import that reports success has restored one snapshot: each file that one
\* export sealed as it was sealed, and the others as the destination held them
\* before (export_snapshot, _publish_snapshot, import_snapshot), whatever the
\* number of exports, files and contents, whatever the destination held and
\* on either kind of system.
THEOREM ImportRestoresOneSnapshot == SnapshotSpec => []RestoredWhole
<1>1. SnapshotInit => SealedInv
  BY SealedInit
<1>2. SealedInv /\ [SnapshotNext]_snapshotVars => SealedInv'
  BY ExportStep, SealStep, ImportStep DEF SnapshotNext
<1>3. SealedInv => RestoredWhole
  BY DEF SealedInv, ImportInv, Sealed, Restored, RestoredWhole
<1> QED
  BY <1>1, <1>2, <1>3, PTL DEF SnapshotSpec

-----------------------------------------------------------------------------
(* The log of the principals' stages. *)

\* A set of positions that is not empty has a last one.
LEMMA GreatestIndex ==
  ASSUME NEW n \in Nat, NEW T \in SUBSET (1..n), T # {}
  PROVE  \E x \in T : \A y \in T : y <= x
<1> DEFINE R == {k \in Nat : k <= n /\ n - k \in T}
<1>1. R \in SUBSET Nat /\ R # {}
  <2>1. PICK x \in T : TRUE
    OBVIOUS
  <2>2. n - x \in R
    BY <2>1
  <2> QED
    BY <2>2
<1>2. PICK k \in R : \A l \in R : <<l, k>> \notin OpToRel(<, Nat)
  BY <1>1, WFMin, NatLessThanWellFounded
<1>3. k \in Nat /\ k <= n /\ n - k \in T
  OBVIOUS
<1>4. ASSUME NEW y \in T PROVE y <= n - k
  <2>1. y \in Nat /\ y <= n /\ n - y \in R
    OBVIOUS
  <2>2. <<n - y, k>> \in Nat \X Nat /\ <<n - y, k>>[1] = n - y /\ <<n - y, k>>[2] = k
    BY <1>3, <2>1
  <2>3. ~(n - y < k)
    BY <1>2, <2>1, <2>2, Zenon DEF OpToRel
  <2> QED
    BY <1>3, <2>1, <2>3
<1> QED
  BY <1>3, <1>4

-----------------------------------------------------------------------------
(* The stages of a mutation surface. *)

\* Whatever is appended to a log is the last word on its principal.
LEMMA StageAfterAppend ==
  ASSUME NEW log \in Seq(Advances), NEW a \in Advances, NEW p
  PROVE  StageIn(Append(log, a), p) = IF a.who = p THEN a.to ELSE StageIn(log, p)
<1> DEFINE new == Append(log, a)
           own == {i \in DOMAIN log : log[i].who = p}
           ownNew == {i \in DOMAIN new : new[i].who = p}
<1>1. /\ DOMAIN new = 1..Len(log) + 1 /\ DOMAIN log = 1..Len(log) /\ Len(log) \in Nat
      /\ \A i \in 1..Len(log) : new[i] = log[i]
      /\ new[Len(log) + 1] = a
  OBVIOUS
<1> HIDE DEF new
<1>2. CASE a.who = p
  <2> DEFINE last == CHOOSE i \in ownNew : \A j \in ownNew : j <= i
  <2>1. Len(log) + 1 \in ownNew /\ \A j \in ownNew : j <= Len(log) + 1 /\ j \in Nat
    BY <1>1, <1>2
  <2>2. last \in ownNew /\ \A j \in ownNew : j <= last
    BY <2>1
  <2>3. last = Len(log) + 1
    <3> HIDE DEF last, ownNew
    <3> QED
      BY <1>1, <2>1, <2>2
  <2>4. StageIn(new, p) = new[last]["to"]
    BY <2>1 DEF StageIn
  <2> QED
    BY <1>1, <1>2, <2>3, <2>4 DEF new
<1>3. CASE a.who # p
  <2>1. ownNew = own
    BY <1>1, <1>3
  <2>2. CASE own = {}
    BY <1>3, <2>1, <2>2 DEF StageIn, new
  <2>3. CASE own # {}
    <3> DEFINE last == CHOOSE i \in own : \A j \in own : j <= i
    <3>1. own \in SUBSET (1..Len(log))
      BY <1>1
    <3>2. last \in own
      BY <1>1, <2>3, <3>1, GreatestIndex
    <3>3. StageIn(log, p) = log[last].to /\ StageIn(new, p) = new[last].to
      BY <2>1, <2>3 DEF StageIn
    <3>4. new[last] = log[last]
      BY <1>1, <3>2
    <3> QED
      BY <1>3, <3>3, <3>4 DEF new
  <2> QED
    BY <2>2, <2>3
<1> QED
  BY <1>2, <1>3

LEMMA StageHasLine ==
  ASSUME NEW log \in Seq(Advances), NEW p
  PROVE  /\ StageIn(log, p) \in 0..proven
         /\ StageIn(log, p) > 0 => \E j \in DOMAIN log : log[j] = [who |-> p, to |-> StageIn(log, p)]
<1> DEFINE own == {i \in DOMAIN log : log[i].who = p}
           last == CHOOSE i \in own : \A j \in own : j <= i
<1>1. CASE own = {}
  BY <1>1 DEF StageIn, proven
<1>2. CASE own # {}
  <2>1. own \in SUBSET (1..Len(log)) /\ Len(log) \in Nat
    OBVIOUS
  <2>2. last \in own
    BY <1>2, <2>1, GreatestIndex
  <2>3. StageIn(log, p) = log[last].to /\ log[last] \in Advances /\ log[last].who = p /\ last \in DOMAIN log
    BY <1>2, <2>2 DEF StageIn
  <2> HIDE DEF last, own
  <2>4. log[last] = [who |-> p, to |-> StageIn(log, p)] /\ log[last].to \in 0..proven
    BY <2>3 DEF Advances, wired, proven
  <2> QED
    BY <2>3, <2>4
<1> QED
  BY <1>1, <1>2

\* The log without its last line.
AllBut(log) == SubSeq(log, 1, Len(log) - 1)

\* A stage has the one below it in the log.
Footing(log, a) ==
    a.to > wired => \E j \in DOMAIN log : log[j] = [who |-> a.who, to |-> a.to - 1]

Stepwise(log) ==
    \A i \in DOMAIN log : log[i].to > wired =>
        \E j \in 1..(i - 1) : log[j] = [who |-> log[i].who, to |-> log[i].to - 1]

OneAt(log) ==
    \A p, q \in Principals :
       p # q /\ StageIn(log, p) >= active /\ StageIn(log, q) >= active =>
          /\ ~(StageIn(log, p) = proven /\ StageIn(log, q) = proven)
          /\ \E r \in Principals : StageIn(log, r) = proven

\* The inductive invariant: what a command is about to append still follows
\* from the log, as far as nothing happened that it cannot know of.
StagesInv ==
    /\ lines \in Seq(Advances) /\ command \in [Commands -> Advances \cup {Idle}]
    /\ tail = "whole" => lines # <<>>
    /\ ~overlapped =>
          /\ \A c, d \in Commands : command[c] # Idle /\ command[d] # Idle => c = d
          /\ \A c \in Commands :
                command[c] # Idle => MayAdvance(lines, command[c].who, command[c].to)
          /\ OneAt(lines) /\ (tail = "whole" => OneAt(AllBut(lines)))
    /\ ~(overlapped /\ glued) =>
          /\ Stepwise(lines)
          /\ \A c \in Commands : command[c] # Idle => Footing(lines, command[c])

LEMMA LogOps ==
  ASSUME NEW log \in Seq(Advances), NEW a \in Advances
  PROVE  /\ Append(log, a) \in Seq(Advances) /\ Append(log, a) # <<>>
         /\ AllBut(Append(log, a)) = log
         /\ Stepwise(log) /\ Footing(log, a) => Stepwise(Append(log, a))
         /\ \A b : Footing(log, b) => Footing(Append(log, a), b)
<1> DEFINE new == Append(log, a)
<1>1. /\ new \in Seq(Advances) /\ Len(new) = Len(log) + 1 /\ Len(log) \in Nat
      /\ DOMAIN new = 1..Len(log) + 1 /\ DOMAIN log = 1..Len(log)
      /\ \A i \in 1..Len(log) : new[i] = log[i]
      /\ new[Len(log) + 1] = a
  OBVIOUS
<1>2. new # <<>>
  BY <1>1
<1>3. AllBut(new) = log
  BY <1>1, SubSeqProperties DEF AllBut
<1> HIDE DEF new
<1>4. Stepwise(log) /\ Footing(log, a) => Stepwise(new)
  BY <1>1 DEF Stepwise, Footing
<1>5. \A b : Footing(log, b) => Footing(new, b)
  BY <1>1 DEF Footing
<1> QED
  BY <1>1, <1>2, <1>3, <1>4, <1>5 DEF new

LEMMA AllButOps ==
  ASSUME NEW log \in Seq(Advances), log # <<>>
  PROVE  AllBut(log) \in Seq(Advances) /\ (Stepwise(log) => Stepwise(AllBut(log)))
<1> DEFINE old == AllBut(log)
<1>1. /\ Len(log) \in Nat \ {0} /\ old \in Seq(Advances) /\ DOMAIN old = 1..Len(log) - 1
      /\ DOMAIN log = 1..Len(log) /\ \A i \in 1..Len(log) - 1 : old[i] = log[i]
  BY SubSeqProperties DEF AllBut
<1> HIDE DEF old
<1>2. Stepwise(log) => Stepwise(old)
  BY <1>1 DEF Stepwise
<1> QED
  BY <1>1, <1>2 DEF old

\* The gate keeps one principal.
LEMMA GateKeepsOne ==
  ASSUME NEW log \in Seq(Advances), NEW a \in Advances, OneAt(log), MayAdvance(log, a.who, a.to)
  PROVE  OneAt(Append(log, a))
<1> DEFINE S(p) == StageIn(log, p)
           T(p) == StageIn(Append(log, a), p)
<1>1. \A p \in Principals : S(p) \in 0..4 /\ T(p) = IF p = a.who THEN a.to ELSE S(p)
  BY StageAfterAppend, StageHasLine DEF proven
<1>2. a.who \in Principals /\ a.to \in 1..4 /\ S(a.who) = a.to - 1
  BY DEF Advances, wired, proven, MayAdvance
<1>3. /\ a.to = 4 => \A q \in Principals \ {a.who} : S(q) # 4
      /\ a.to = 3 => \A q \in Principals \ {a.who} : S(q) > 0 =>
            \E r \in Principals \ {a.who} : S(r) = 4
  BY DEF MayAdvance, Gate, proven, active
<1>4. \A p, q \in Principals : p # q /\ S(p) >= 3 /\ S(q) >= 3 =>
         ~(S(p) = 4 /\ S(q) = 4) /\ \E r \in Principals : S(r) = 4
  BY DEF OneAt, proven, active
<1> HIDE DEF S, T
<1>5. ASSUME NEW p \in Principals, NEW q \in Principals, p # q, T(p) >= 3, T(q) >= 3
      PROVE  ~(T(p) = 4 /\ T(q) = 4) /\ \E r \in Principals : T(r) = 4
  <2>1. ~(T(p) = 4 /\ T(q) = 4)
    BY <1>1, <1>2, <1>3, <1>4, <1>5
  <2>2. \E r \in Principals : T(r) = 4
    <3>1. CASE a.to = 4
      BY <1>1, <1>2, <3>1
    <3>2. CASE a.to # 4
      <4>1. \E r \in Principals : S(r) = 4
        BY <1>1, <1>2, <1>3, <1>4, <1>5, <3>2
      <4> QED
        BY <1>1, <1>2, <3>2, <4>1
    <3> QED
      BY <3>1, <3>2
  <2> QED
    BY <2>1, <2>2
<1> QED
  BY <1>5 DEF OneAt, S, T, proven, active

LEMMA ReadStep ==
  ASSUME StagesInv, NEW c \in Commands, Read(c)
  PROVE  StagesInv'
<1>1. PICK a \in Advances : MayAdvance(lines, a.who, a.to) /\ command' = [command EXCEPT ![c] = a]
  BY DEF Read
<1>2. /\ UNCHANGED <<lines, tail, glued>>
      /\ overlapped' <=> (overlapped \/ \E d \in Commands : command[d] # Idle)
  BY DEF Read
<1>3. Footing(lines, a)
  <2>1. a.who \in Principals /\ a.to \in 1..4 /\ StageIn(lines, a.who) = a.to - 1
    BY <1>1 DEF Advances, wired, proven, MayAdvance
  <2> QED
    BY <2>1, StageHasLine DEF Footing, wired, StagesInv
<1>4. command' \in [Commands -> Advances \cup {Idle}]
  BY <1>1 DEF StagesInv
<1>5. \A d \in Commands : command'[d] \in {command[d], a} /\ (d # c => command'[d] = command[d])
  BY <1>1 DEF StagesInv
<1>6. ~overlapped' => ~overlapped /\ \A d \in Commands : command[d] = Idle
  BY <1>2
<1>7. ~overlapped' =>
        /\ \A d, e \in Commands : command'[d] # Idle /\ command'[e] # Idle => d = e
        /\ \A d \in Commands :
              command'[d] # Idle => MayAdvance(lines, command'[d].who, command'[d].to)
        /\ OneAt(lines) /\ (tail = "whole" => OneAt(AllBut(lines)))
  BY <1>1, <1>5, <1>6 DEF StagesInv
<1>8. ~(overlapped' /\ glued) =>
        Stepwise(lines) /\ \A d \in Commands : command'[d] # Idle => Footing(lines, command'[d])
  BY <1>2, <1>3, <1>5 DEF StagesInv
<1>9. lines' = lines /\ tail' = tail /\ glued' = glued
  BY <1>2
<1> QED
  BY <1>4, <1>7, <1>8, <1>9 DEF StagesInv

LEMMA DiesStep ==
  ASSUME StagesInv, NEW c \in Commands, Dies(c)
  PROVE  StagesInv'
<1>1. command' = [command EXCEPT ![c] = Idle] /\ UNCHANGED <<lines, tail, overlapped, glued>>
  BY DEF Dies
<1>2. command' \in [Commands -> Advances \cup {Idle}] /\ \A d \in Commands : command'[d] \in {command[d], Idle}
  BY <1>1 DEF StagesInv
<1> QED
  BY <1>1, <1>2 DEF StagesInv

LEMMA AppendStep ==
  ASSUME StagesInv, NEW c \in Commands, AppendLine(c)
  PROVE  StagesInv'
<1> DEFINE a == command[c]
<1>1. PICK end \in {"ended", "cut", "whole"} : Glue(a, end)
  BY DEF AppendLine
<1>2. a \in Advances /\ a # Idle /\ command' = [command EXCEPT ![c] = Idle] /\ UNCHANGED overlapped
  BY DEF AppendLine, StagesInv
<1>3. /\ command' \in [Commands -> Advances \cup {Idle}]
      /\ \A d \in Commands : command'[d] \in {command[d], Idle}
      /\ command'[c] = Idle
  BY <1>2 DEF StagesInv
<1>4. ~overlapped => \A d \in Commands : command'[d] = Idle
  BY <1>2, <1>3 DEF StagesInv
<1>5. lines \in Seq(Advances) /\ (tail = "whole" => lines # <<>>)
  BY DEF StagesInv
<1>6. glued => glued'
  BY <1>1 DEF Glue
<1> HIDE DEF a
<1>7. CASE tail = "ended" /\ end # "cut"
  <2>1. lines' = Append(lines, a) /\ tail' = end /\ (glued' <=> glued)
    BY <1>1, <1>7 DEF Glue
  <2>2. /\ lines' \in Seq(Advances) /\ lines' # <<>> /\ AllBut(lines') = lines
        /\ Stepwise(lines) /\ Footing(lines, a) => Stepwise(lines')
        /\ \A b : Footing(lines, b) => Footing(lines', b)
    BY <1>2, <1>5, <2>1, LogOps
  <2>3. ~overlapped' => OneAt(lines') /\ OneAt(AllBut(lines'))
    <3>1. ~overlapped => OneAt(lines) /\ MayAdvance(lines, a.who, a.to)
      BY <1>2 DEF StagesInv, a
    <3> QED
      BY <1>2, <1>5, <2>1, <2>2, <3>1, GateKeepsOne
  <2>4. ~(overlapped' /\ glued') =>
          /\ Stepwise(lines')
          /\ \A d \in Commands : command'[d] # Idle => Footing(lines', command'[d])
    BY <1>2, <1>3, <2>1, <2>2 DEF StagesInv, a
  <2>5. ~overlapped' =>
          /\ \A d, e \in Commands : command'[d] # Idle /\ command'[e] # Idle => d = e
          /\ \A d \in Commands : command'[d] # Idle => MayAdvance(lines', command'[d].who, command'[d].to)
    BY <1>2, <1>4
  <2> QED
    BY <1>3, <2>2, <2>3, <2>4, <2>5 DEF StagesInv
<1>8. CASE tail # "whole" /\ ~(tail = "ended" /\ end # "cut")
  <2>1. lines' = lines /\ tail' # "whole" /\ (glued' <=> glued)
    BY <1>1, <1>8 DEF Glue
  <2>2. ~overlapped' =>
          /\ \A d, e \in Commands : command'[d] # Idle /\ command'[e] # Idle => d = e
          /\ \A d \in Commands : command'[d] # Idle => MayAdvance(lines', command'[d].who, command'[d].to)
          /\ OneAt(lines')
    BY <1>2, <1>4, <2>1 DEF StagesInv
  <2>3. ~(overlapped' /\ glued') =>
          /\ Stepwise(lines')
          /\ \A d \in Commands : command'[d] # Idle => Footing(lines', command'[d])
    BY <1>2, <1>3, <2>1 DEF StagesInv
  <2>4. lines' \in Seq(Advances)
    BY <1>5, <2>1
  <2> QED
    BY <1>3, <2>1, <2>2, <2>3, <2>4 DEF StagesInv
<1>9. CASE tail = "whole"
  <2>1. lines' = AllBut(lines) /\ tail' # "whole" /\ glued'
    BY <1>1, <1>9 DEF Glue, AllBut
  <2>2. lines' \in Seq(Advances) /\ (Stepwise(lines) => Stepwise(lines'))
    BY <1>5, <1>9, <2>1, AllButOps
  <2>3. ~overlapped' =>
          /\ \A d, e \in Commands : command'[d] # Idle /\ command'[e] # Idle => d = e
          /\ \A d \in Commands : command'[d] # Idle => MayAdvance(lines', command'[d].who, command'[d].to)
          /\ OneAt(lines')
    BY <1>2, <1>4, <1>9, <2>1 DEF StagesInv
  <2>4. ~(overlapped' /\ glued') =>
          /\ Stepwise(lines')
          /\ \A d \in Commands : command'[d] # Idle => Footing(lines', command'[d])
    BY <1>2, <1>4, <2>1, <2>2 DEF StagesInv
  <2> QED
    BY <1>3, <2>1, <2>2, <2>3, <2>4 DEF StagesInv
<1> QED
  BY <1>7, <1>8, <1>9

\* The log of a mutation surface can be relied on, for any number of principals
\* and commands and any length: a stage follows from the one below it, and no
\* principal is active beside another before one is proven, although commands
\* die in the middle of a line (advance, _single_principal_gate and _append of
\* lifecycle.py).
THEOREM StagesAreTrue == StagesSpec => []StagesTrue
<1>1. StagesInit => StagesInv
  <2> SUFFICES ASSUME StagesInit PROVE StagesInv
    OBVIOUS
  <2>1. lines = <<>> /\ tail = "ended" /\ \A c \in Commands : command[c] = Idle
    BY DEF StagesInit
  <2>2. lines \in Seq(Advances) /\ command \in [Commands -> Advances \cup {Idle}]
    BY DEF StagesInit
  <2>3. Stepwise(lines) /\ \A p \in Principals : StageIn(lines, p) = 0
    BY <2>1 DEF Stepwise, StageIn
  <2>4. OneAt(lines)
    BY <2>3 DEF OneAt, active
  <2> QED
    BY <2>1, <2>2, <2>3, <2>4 DEF StagesInv
<1>2. StagesInv /\ [StagesNext]_stageVars => StagesInv'
  <2> SUFFICES ASSUME StagesInv, [StagesNext]_stageVars PROVE StagesInv'
    OBVIOUS
  <2>1. CASE UNCHANGED stageVars
    BY <2>1 DEF stageVars, StagesInv
  <2> QED
    BY <2>1, ReadStep, AppendStep, DiesStep DEF StagesNext
<1>3. StagesInv => StagesTrue
  BY DEF StagesInv, StagesTrue, Climbed, OnePrincipal, Stepwise, OneAt
<1> QED
  BY <1>1, <1>2, <1>3, PTL DEF StagesSpec

-----------------------------------------------------------------------------
(* The monitor of the agent's behaviour. *)

Posts == [pc : {"idle", "add", "clean", "pop", "trigger", "open", "write"},
          at : Metrics \cup {"none"}, todo : Seq(Metrics)]

\* Types: a thread that records has something to record, one that pops a window.
Monitoring ==
    /\ thread \in [Threads -> Posts]
    /\ window \in [Metrics -> Seq(Nat)] /\ made \in [Metrics -> Seq(Nat)] /\ instant \in Nat
    /\ \A t \in Threads : thread[t].pc = "add" => thread[t].todo # <<>>
    /\ \A t \in Threads : thread[t].pc = "pop" => thread[t].at \in Metrics
    /\ configured \in {"on", "off", "unreadable"}

Recent(m) == {i \in DOMAIN made[m] : made[m][i] + WindowLength >= instant}

\* A window holds the last events; those it lost are old.
Lost(m) == Len(made[m]) - Len(window[m])

Faithful(m) ==
    /\ Len(window[m]) <= Len(made[m])
    /\ \A i \in 1..Len(window[m]) : window[m][i] = made[m][i + Lost(m)]
    /\ \A i \in 1..Lost(m) : Old(made[m][i])

\* Somebody is about to count the events.
Counting == \E t \in Threads : thread[t].pc \in {"clean", "pop", "trigger"}

\* Somebody is about to write that the quarantine began.
Saving == \E t \in Threads : thread[t].pc \in {"open", "write"}

\* The inductive invariant.
MonitorInv ==
    /\ Monitoring
    /\ ~raced => \A m \in Metrics : Faithful(m)
    /\ configured = "on" /\ ~raced =>
          \A m \in Metrics : Cardinality(Recent(m)) > MaxEvents => quarantined \/ Counting
    /\ due /\ ~spoiled => quarantined /\ (stateFile = "quarantine" \/ Saving)
    /\ EpochKept

LEMMA FaithfulMeans ==
  ASSUME NEW m, NEW w, NEW e, w = window[m], e = made[m], Faithful(m)
  PROVE  /\ Len(w) <= Len(e)
         /\ \A i \in 1..Len(w) : w[i] = e[i + (Len(e) - Len(w))]
         /\ \A i \in 1..(Len(e) - Len(w)) : e[i] + WindowLength < instant
<1>1. Len(w) <= Len(e)
  BY Zenon DEF Faithful
<1>2. \A i \in 1..Len(w) : w[i] = e[i + (Len(e) - Len(w))]
  BY Zenon DEF Faithful, Lost
<1>3. \A i \in 1..(Len(e) - Len(w)) : e[i] + WindowLength < instant
  BY Zenon DEF Faithful, Lost, Old
<1> QED
  BY <1>1, <1>2, <1>3

\* No more events are recent than the window holds.
LEMMA RecentInWindow ==
  ASSUME Monitoring, NEW m \in Metrics, Faithful(m)
  PROVE  Cardinality(Recent(m)) <= Len(window[m])
<1> DEFINE n == Len(made[m])
           w == Len(window[m])
           I == n - w + 1 .. n
<1>1. made[m] \in Seq(Nat) /\ window[m] \in Seq(Nat) /\ instant \in Nat /\ WindowLength \in Nat
  BY QuarantineAssumption DEF Monitoring
<1>2. n \in Nat /\ w \in Nat /\ w <= n /\ DOMAIN made[m] = 1..n /\ \A i \in 1..n : made[m][i] \in Nat
  BY <1>1 DEF Faithful
<1>3. \A i \in 1..(n - w) : made[m][i] + WindowLength < instant
  BY DEF Faithful, Lost, Old
<1>4. Recent(m) \subseteq I
  <2> HIDE DEF n, w
  <2> QED
    BY <1>1, <1>2, <1>3 DEF Recent
<1> HIDE DEF n, w
<1>5. IsFiniteSet(I) /\ Cardinality(I) = w
  <2> DEFINE first == n - w + 1
  <2>1. first \in Int /\ n \in Int /\ (IF first > n THEN 0 ELSE n - first + 1) = w
    BY <1>2
  <2> HIDE DEF first
  <2>2. IsFiniteSet(first .. n) /\ Cardinality(first .. n) = w
    BY <2>1, FS_Interval
  <2> QED
    BY <2>2 DEF first
<1>6. Cardinality(Recent(m)) <= Cardinality(I)
  BY <1>4, <1>5, FS_Subset
<1> QED
  BY <1>5, <1>6 DEF w

LEMMA RecentIsFinite ==
  ASSUME Monitoring, NEW m \in Metrics
  PROVE  IsFiniteSet(Recent(m)) /\ Cardinality(Recent(m)) \in Nat
<1>1. made[m] \in Seq(Nat)
  BY DEF Monitoring
<1>2. Recent(m) \subseteq 1..Len(made[m]) /\ Len(made[m]) \in Nat
  BY <1>1 DEF Recent
<1>3. IsFiniteSet(1..Len(made[m]))
  BY <1>2, FS_Interval
<1> QED
  BY <1>2, <1>3, FS_Subset, FS_CardinalityType

\* A place that a thread may be in.
Fit(x) == x \in Posts /\ (x.pc = "add" => x.todo # <<>>) /\ (x.pc = "pop" => x.at \in Metrics)

LEMMA TailGoesOn ==
  ASSUME NEW S, NEW s \in Seq(S), Len(s) > 1
  PROVE  Tail(s) \in Seq(S) /\ Tail(s) # <<>>
<1> DEFINE r == Tail(s)
<1>1. s # <<>> /\ Len(s) \in Nat
  OBVIOUS
<1>2. r \in Seq(S) /\ Len(r) = Len(s) - 1
  BY <1>1, HeadTailProperties
<1> HIDE DEF r
<1>3. Len(r) # 0
  BY <1>1, <1>2
<1>4. r # <<>>
  BY <1>3
<1> QED
  BY <1>2, <1>4 DEF r

LEMMA OnwardFits ==
  ASSUME NEW x \in Posts
  PROVE  /\ Fit(Onward(x)) /\ Onward(x).pc \in {"idle", "add"}
         /\ Fit(Resting) /\ Resting.pc = "idle"
         /\ \A y \in Raised : Fit(y) /\ y.pc \in {"idle", "add"}
<1>1. Fit(Resting) /\ Resting.pc = "idle"
  <2>1. <<>> \in Seq(Metrics)
    OBVIOUS
  <2> QED
    BY <2>1 DEF Fit, Resting, Posts
<1>2. ASSUME Len(x.todo) > 1
      PROVE  Fit([Resting EXCEPT !.pc = "add", !.todo = Tail(x.todo)])
  <2>1. x.todo \in Seq(Metrics)
    BY DEF Posts
  <2>2. Tail(x.todo) \in Seq(Metrics) /\ Tail(x.todo) # <<>>
    BY <1>2, <2>1, TailGoesOn
  <2> QED
    BY <1>1, <2>2 DEF Fit, Resting, Posts
<1>3. ASSUME NEW m \in Metrics
      PROVE  Fit([Resting EXCEPT !.pc = "add", !.todo = <<m>>])
  <2>1. <<m>> \in Seq(Metrics) /\ <<m>> # <<>>
    OBVIOUS
  <2> QED
    BY <1>1, <2>1 DEF Fit, Resting, Posts
<1>4. Fit(Onward(x)) /\ Onward(x).pc \in {"idle", "add"}
  BY <1>1, <1>2 DEF Onward, Resting
<1>5. \A y \in Raised : Fit(y) /\ y.pc \in {"idle", "add"}
  BY <1>1, <1>3 DEF Raised, Resting
<1> QED
  BY <1>1, <1>4, <1>5

\* One thread moves.
Moves(t, x) == thread' = [thread EXCEPT ![t] = x]

LEMMA MoveKeeps ==
  ASSUME Monitoring, NEW t \in Threads, NEW x, Fit(x), Moves(t, x)
  PROVE  /\ thread' \in [Threads -> Posts]
         /\ \A q \in Threads : Fit(thread'[q])
         /\ thread'[t] = x /\ \A q \in Threads \ {t} : thread'[q] = thread[q]
         /\ thread[t].pc \notin {"open", "write"} => (Saving => Saving')
         /\ x.pc \in {"open", "write"} => Saving'
         /\ thread[t].pc \notin {"clean", "pop", "trigger"} => (Counting => Counting')
         /\ x.pc \in {"clean", "pop", "trigger"} => Counting'
<1>1. thread \in [Threads -> Posts] /\ \A q \in Threads : Fit(thread[q])
  BY DEF Monitoring, Fit
<1>2. /\ thread' \in [Threads -> Posts] /\ thread'[t] = x
      /\ \A q \in Threads \ {t} : thread'[q] = thread[q]
  BY <1>1 DEF Moves, Fit
<1> QED
  BY <1>1, <1>2 DEF Saving, Counting

\* A thread that leaves the windows alone.
LEMMA QuietStep ==
  ASSUME MonitorInv, NEW t \in Threads, NEW x, Fit(x), Moves(t, x),
         UNCHANGED <<window, made, instant, configured, raced, epoch, epochFile>>,
         quarantined => quarantined',
         Counting => Counting' \/ quarantined' \/ \A m \in Metrics : Len(window[m]) <= MaxEvents,
         due' /\ ~spoiled' => quarantined' /\ (stateFile' = "quarantine" \/ Saving')
  PROVE  MonitorInv'
<1>1. Monitoring'
  BY MoveKeeps DEF MonitorInv, Monitoring, Fit
<1>2. \A m \in Metrics : (Faithful(m) => Faithful(m)') /\ Recent(m)' = Recent(m)
  BY DEF Faithful, Lost, Old, Recent
<1>3. ASSUME configured = "on", ~raced, NEW m \in Metrics, Cardinality(Recent(m)) > MaxEvents
      PROVE  quarantined' \/ Counting'
  <2>1. quarantined \/ Counting
    BY <1>3 DEF MonitorInv
  <2>2. Cardinality(Recent(m)) <= Len(window[m]) /\ Cardinality(Recent(m)) \in Nat /\ Len(window[m]) \in Nat
    BY <1>3, RecentInWindow, RecentIsFinite DEF MonitorInv, Monitoring
  <2>3. ~(Len(window[m]) <= MaxEvents)
    BY <1>3, <2>2, QuarantineAssumption
  <2> QED
    BY <2>1, <2>3
<1>4. \A m \in Metrics : configured' = "on" /\ ~raced' /\ Cardinality(Recent(m)') > MaxEvents
                          => quarantined' \/ Counting'
  BY <1>2, <1>3
<1>5. EpochKept'
  BY DEF MonitorInv, EpochKept
<1>6. ~raced' => \A m \in Metrics : Faithful(m)'
  BY <1>2 DEF MonitorInv
<1> QED
  BY <1>1, <1>4, <1>5, <1>6 DEF MonitorInv

LEMMA BeginsStep ==
  ASSUME MonitorInv, NEW t \in Threads, Begins(t)
  PROVE  MonitorInv'
<1>1. PICK steps \in ToolCalls \cup Messages :
        /\ \A i \in DOMAIN steps : steps[i] \in Metrics
        /\ Moves(t, [Resting EXCEPT !.pc = "add", !.todo = steps])
  BY DEF Begins, Moves
<1>2. steps \in Seq(Metrics) /\ steps # <<>>
  BY <1>1 DEF ToolCalls, Messages
<1>3. Fit([Resting EXCEPT !.pc = "add", !.todo = steps])
  BY <1>2, OnwardFits DEF Fit, Posts, Resting
<1>4. /\ UNCHANGED <<window, made, instant, configured, raced, epoch, epochFile>>
      /\ UNCHANGED <<quarantined, due, spoiled, stateFile>> /\ thread[t].pc = "idle"
  BY DEF Begins, Resting
<1>5. (Counting => Counting') /\ (Saving => Saving')
  BY <1>1, <1>3, <1>4, MoveKeeps DEF MonitorInv
<1> QED
  BY <1>1, <1>3, <1>4, <1>5, QuietStep DEF MonitorInv

LEMMA LookStep ==
  ASSUME MonitorInv, NEW t \in Threads, Look(t)
  PROVE  MonitorInv'
<1>1. PICK m \in Metrics : thread' = [thread EXCEPT ![t].pc = "pop", ![t].at = m]
  BY DEF Look
<1> DEFINE x == [thread[t] EXCEPT !.pc = "pop", !.at = m]
<1>2. thread[t] \in Posts /\ thread \in [Threads -> Posts]
  BY DEF MonitorInv, Monitoring
<1>3. Fit(x) /\ x.pc = "pop"
  BY <1>2 DEF Fit, Posts
<1>4. Moves(t, x)
  BY <1>1, <1>2 DEF Moves
<1>5. /\ UNCHANGED <<window, made, instant, configured, raced, epoch, epochFile>>
      /\ UNCHANGED <<quarantined, due, spoiled, stateFile>> /\ thread[t].pc = "clean"
  BY DEF Look
<1> HIDE DEF x
<1>6. Counting' /\ (Saving => Saving')
  BY <1>3, <1>4, <1>5, MoveKeeps DEF MonitorInv
<1> QED
  BY <1>3, <1>4, <1>5, <1>6, QuietStep DEF MonitorInv

LEMMA CountStep ==
  ASSUME MonitorInv, NEW t \in Threads, Count(t)
  PROVE  MonitorInv'
<1> DEFINE over == \E m \in Metrics : Len(window[m]) > MaxEvents
           x == IF over /\ ~quarantined THEN [thread[t] EXCEPT !.pc = "trigger"] ELSE Onward(thread[t])
<1>1. thread[t] \in Posts /\ thread \in [Threads -> Posts] /\ \A m \in Metrics : Len(window[m]) \in Nat
  BY DEF MonitorInv, Monitoring
<1>2. Moves(t, x)
  BY <1>1 DEF Count, Moves
<1>3. Fit(x) /\ (over /\ ~quarantined => x.pc = "trigger")
  <2>1. Fit([thread[t] EXCEPT !.pc = "trigger"])
    BY <1>1 DEF Fit, Posts
  <2> QED
    BY <1>1, <2>1, OnwardFits DEF Posts
<1>4. ~over => \A m \in Metrics : Len(window[m]) <= MaxEvents
  BY <1>1, QuarantineAssumption
<1>5. /\ UNCHANGED <<window, made, instant, configured, raced, epoch, epochFile>>
      /\ UNCHANGED <<quarantined, due, spoiled, stateFile>> /\ thread[t].pc = "clean"
  BY DEF Count
<1> HIDE DEF x, over
<1>6. (Saving => Saving') /\ (over /\ ~quarantined => Counting')
  BY <1>2, <1>3, <1>5, MoveKeeps DEF MonitorInv
<1> QED
  BY <1>2, <1>3, <1>4, <1>5, <1>6, QuietStep DEF MonitorInv

LEMMA SaveStep ==
  ASSUME MonitorInv, NEW t \in Threads, Trigger(t) \/ Open(t) \/ Write(t)
  PROVE  MonitorInv'
<1>1. thread[t] \in Posts /\ thread \in [Threads -> Posts]
  BY DEF MonitorInv, Monitoring
<1>2. ASSUME NEW p \in {"open", "write"}
      PROVE  Fit([thread[t] EXCEPT !.pc = p]) /\ [thread[t] EXCEPT !.pc = p].pc = p
  BY <1>1 DEF Fit, Posts
<1>3. Fit(Onward(thread[t]))
  BY <1>1, OnwardFits
<1>4. /\ UNCHANGED <<window, made, instant, configured, raced, epoch, epochFile>>
      /\ quarantined => quarantined'
  BY DEF Trigger, Open, Write
<1>5. CASE Trigger(t)
  <2>1. Moves(t, [thread[t] EXCEPT !.pc = "open"]) /\ quarantined'
    BY <1>1, <1>5 DEF Trigger, Moves
  <2>2. Saving'
    BY <1>2, <2>1, MoveKeeps DEF MonitorInv
  <2> QED
    BY <1>2, <1>4, <2>1, <2>2, QuietStep
<1>6. CASE Open(t)
  <2>1. thread[t].pc = "open" /\ UNCHANGED <<quarantined, due>>
    BY <1>6 DEF Open
  <2>2. CASE Moves(t, [thread[t] EXCEPT !.pc = "write"]) /\ UNCHANGED spoiled
    <3>1. Saving' /\ (Counting => Counting')
      BY <1>2, <2>1, <2>2, MoveKeeps DEF MonitorInv
    <3> QED
      BY <1>2, <1>4, <2>1, <2>2, <3>1, QuietStep DEF MonitorInv
  <2>3. CASE Moves(t, Onward(thread[t])) /\ spoiled'
    <3>1. Counting => Counting'
      BY <1>3, <2>1, <2>3, MoveKeeps DEF MonitorInv
    <3> QED
      BY <1>3, <1>4, <2>1, <2>3, <3>1, QuietStep
  <2> QED
    BY <1>1, <1>6, <2>2, <2>3 DEF Open, Moves
<1>7. CASE Write(t)
  <2>1. /\ thread[t].pc = "write" /\ UNCHANGED <<quarantined, due>> /\ Moves(t, Onward(thread[t]))
        /\ spoiled' \/ (stateFile' = "quarantine" /\ UNCHANGED spoiled)
    BY <1>1, <1>7 DEF Write, Moves
  <2>2. Counting => Counting'
    BY <1>3, <2>1, MoveKeeps DEF MonitorInv
  <2> QED
    BY <1>3, <1>4, <2>1, <2>2, QuietStep DEF MonitorInv
<1> QED
  BY <1>5, <1>6, <1>7

LEMMA AddStep ==
  ASSUME MonitorInv, NEW t \in Threads, Add(t)
  PROVE  MonitorInv'
<1> DEFINE m == Head(thread[t].todo)
<1>1. thread[t] \in Posts /\ thread \in [Threads -> Posts] /\ Monitoring
  BY DEF MonitorInv, Monitoring
<1>2. /\ thread[t].pc = "add" /\ window' = [window EXCEPT ![m] = Append(@, instant)]
      /\ made' = [made EXCEPT ![m] = Append(@, instant)]
      /\ UNCHANGED <<instant, configured, quarantined, stateFile, epoch, epochFile, due, spoiled, raced>>
  BY DEF Add
<1>3. m \in Metrics
  <2>1. thread[t].todo \in Seq(Metrics) /\ thread[t].todo # <<>>
    BY <1>1, <1>2 DEF Posts, Monitoring
  <2> QED
    BY <2>1, HeadTailProperties
<1>4. PICK x : Moves(t, x) /\ Fit(x) /\ (configured = "on" => x.pc = "clean")
  <2>1. Fit([thread[t] EXCEPT !.pc = "clean"]) /\ [thread[t] EXCEPT !.pc = "clean"].pc = "clean"
    BY <1>1 DEF Fit, Posts
  <2>2. CASE configured = "on"
    BY <2>1, <2>2 DEF Add, Moves
  <2>3. CASE configured = "off"
    BY <1>1, <2>3, OnwardFits DEF Add, Moves
  <2>4. CASE configured = "unreadable"
    BY <1>1, <2>4, OnwardFits DEF Add, Moves
  <2>5. configured \in {"on", "off", "unreadable"}
    BY DEF MonitorInv, Monitoring
  <2> QED
    BY <2>2, <2>3, <2>4, <2>5
<1> HIDE DEF m
<1>5. Monitoring' /\ (Saving => Saving') /\ (configured = "on" => Counting')
  <2>1. /\ thread' \in [Threads -> Posts] /\ \A q \in Threads : Fit(thread'[q])
        /\ Saving => Saving'
        /\ configured = "on" => Counting'
    BY <1>1, <1>2, <1>4, MoveKeeps
  <2>2. window' \in [Metrics -> Seq(Nat)] /\ made' \in [Metrics -> Seq(Nat)] /\ instant' \in Nat
    BY <1>1, <1>2, <1>3 DEF Monitoring
  <2> QED
    BY <1>1, <1>2, <2>1, <2>2 DEF Monitoring, Fit
<1>6. ASSUME NEW k \in Metrics, Faithful(k)
      PROVE  Faithful(k)'
  <2>1. CASE k # m
    <3>1. window'[k] = window[k] /\ made'[k] = made[k] /\ instant' = instant
      BY <1>1, <1>2, <2>1 DEF Monitoring
    <3> QED
      BY <1>6, <3>1 DEF Faithful, Lost, Old
  <2>2. CASE k = m
    <3> DEFINE w == window[k]
               e == made[k]
    <3>1. w \in Seq(Nat) /\ e \in Seq(Nat) /\ instant \in Nat
      BY <1>1 DEF Monitoring
    <3>2. window'[k] = Append(w, instant) /\ made'[k] = Append(e, instant) /\ instant' = instant
      BY <1>1, <1>2, <1>3, <2>2 DEF Monitoring
    <3>3. /\ Len(w) \in Nat /\ Len(e) \in Nat /\ Len(w) <= Len(e)
          /\ \A i \in 1..Len(w) : w[i] = e[i + (Len(e) - Len(w))]
          /\ \A i \in 1..(Len(e) - Len(w)) : e[i] + WindowLength < instant
      <4>1. Len(w) \in Nat /\ Len(e) \in Nat
        BY <3>1
      <4> QED
        BY <1>6, <4>1, FaithfulMeans, Zenon
    <3>4. /\ Len(window'[k]) = Len(w) + 1 /\ Len(made'[k]) = Len(e) + 1
          /\ \A i \in 1..Len(w) : window'[k][i] = w[i]
          /\ \A i \in 1..Len(e) : made'[k][i] = e[i]
          /\ window'[k][Len(w) + 1] = instant /\ made'[k][Len(e) + 1] = instant
      BY <3>1, <3>2
    <3> HIDE DEF w, e
    <3>5. Lost(k)' = Len(e) - Len(w)
      BY <3>3, <3>4 DEF Lost
    <3>6. \A i \in 1..Len(window'[k]) : window'[k][i] = made'[k][i + Lost(k)']
      <4> SUFFICES ASSUME NEW i \in 1..Len(w) + 1 PROVE window'[k][i] = made'[k][i + Lost(k)']
        BY <3>4
      <4>1. CASE i = Len(w) + 1
        <5>1. i + Lost(k)' = Len(e) + 1
          BY <3>3, <3>5, <4>1
        <5> QED
          BY <3>4, <4>1, <5>1
      <4>2. CASE i \in 1..Len(w)
        <5>1. i + Lost(k)' \in 1..Len(e) /\ i + Lost(k)' = i + (Len(e) - Len(w))
          BY <3>3, <3>5, <4>2
        <5> QED
          BY <3>3, <3>4, <4>2, <5>1
      <4> QED
        BY <3>3, <4>1, <4>2
    <3>7. \A i \in 1..Lost(k)' : Old(made[k][i])'
      <4> SUFFICES ASSUME NEW i \in 1..(Len(e) - Len(w)) PROVE Old(made[k][i])'
        BY <3>5
      <4>1. made'[k][i] = e[i] /\ e[i] + WindowLength < instant
        BY <3>3, <3>4
      <4> QED
        BY <3>2, <4>1 DEF Old
    <3> QED
      BY <3>3, <3>4, <3>6, <3>7 DEF Faithful
  <2> QED
    BY <2>1, <2>2
<1>7. ~raced' => \A k \in Metrics : Faithful(k)'
  BY <1>2, <1>6 DEF MonitorInv
<1>8. EpochKept'
  BY <1>2 DEF MonitorInv, EpochKept
<1> QED
  BY <1>2, <1>5, <1>7, <1>8 DEF MonitorInv

LEMMA PopStep ==
  ASSUME MonitorInv, NEW t \in Threads, Pop(t)
  PROVE  MonitorInv'
<1> DEFINE m == thread[t].at
<1>1. thread[t] \in Posts /\ thread \in [Threads -> Posts] /\ Monitoring
  BY DEF MonitorInv, Monitoring
<1>2. /\ thread[t].pc = "pop" /\ m \in Metrics
      /\ UNCHANGED <<instant, configured, quarantined, stateFile, epoch, epochFile, made, due, spoiled>>
      /\ raced' <=> (raced \/ ~Stale(m))
  BY <1>1 DEF Pop, Monitoring
<1>3. window[m] \in Seq(Nat) /\ made[m] \in Seq(Nat) /\ instant \in Nat
  BY <1>1, <1>2 DEF Monitoring
<1>4. EpochKept'
  BY <1>2 DEF MonitorInv, EpochKept
<1>5. CASE window[m] = <<>>
  <2>1. PICK x \in Raised : Moves(t, x)
    BY <1>5 DEF Pop, Moves
  <2>2. Fit(x) /\ UNCHANGED window
    BY <1>1, <1>5, OnwardFits DEF Pop
  <2>3. raced'
    BY <1>2, <1>5 DEF Stale
  <2>4. /\ thread' \in [Threads -> Posts] /\ \A q \in Threads : Fit(thread'[q])
        /\ Saving => Saving'
    BY <1>1, <1>2, <2>1, <2>2, MoveKeeps
  <2>5. Monitoring'
    BY <1>1, <1>2, <2>2, <2>4 DEF Monitoring, Fit
  <2> QED
    BY <1>2, <1>4, <2>3, <2>4, <2>5 DEF MonitorInv
<1>6. CASE window[m] # <<>>
  <2> DEFINE x == [thread[t] EXCEPT !.pc = "clean", !.at = "none"]
             w == window[m]
             e == made[m]
  <2>1. Moves(t, x) /\ window' = [window EXCEPT ![m] = Tail(@)]
    BY <1>1, <1>6 DEF Pop, Moves
  <2>2. Fit(x) /\ x.pc = "clean"
    BY <1>1 DEF Fit, Posts
  <2> HIDE DEF x
  <2>3. /\ thread' \in [Threads -> Posts] /\ \A q \in Threads : Fit(thread'[q])
        /\ (Saving => Saving') /\ Counting'
    BY <1>1, <1>2, <2>1, <2>2, MoveKeeps
  <2>4. Tail(w) \in Seq(Nat) /\ Len(Tail(w)) = Len(w) - 1 /\ Len(w) \in Nat \ {0}
        /\ \A i \in 1..(Len(w) - 1) : Tail(w)[i] = w[i + 1]
    BY <1>3, <1>6, HeadTailProperties
  <2>5. window'[m] = Tail(w) /\ \A k \in Metrics \ {m} : window'[k] = window[k]
    BY <1>1, <1>2, <2>1 DEF Monitoring
  <2>6. window' \in [Metrics -> Seq(Nat)]
    BY <1>1, <1>2, <2>1, <2>4 DEF Monitoring
  <2>7. Monitoring'
    BY <1>1, <1>2, <2>3, <2>6 DEF Monitoring, Fit
  <2>8. ASSUME ~raced', NEW k \in Metrics
        PROVE  Faithful(k)'
    <3>1. Faithful(k) /\ Stale(m)
      BY <1>2, <2>8 DEF MonitorInv
    <3>2. CASE k # m
      <4>1. window'[k] = window[k] /\ made'[k] = made[k] /\ instant' = instant
        BY <1>2, <2>5, <3>2
      <4> QED
        BY <3>1, <4>1 DEF Faithful, Lost, Old
    <3>3. CASE k = m
      <4>1. w[1] + WindowLength < instant
        BY <1>3, <1>6, <3>1 DEF Stale, Old
      <4>2. /\ Len(e) \in Nat /\ Len(w) <= Len(e)
            /\ \A i \in 1..Len(w) : w[i] = e[i + (Len(e) - Len(w))]
            /\ \A i \in 1..(Len(e) - Len(w)) : e[i] + WindowLength < instant
        <5>1. Len(e) \in Nat
          BY <1>3
        <5> QED
          BY <3>1, <3>3, <5>1, FaithfulMeans, Zenon
      <4>3. /\ window'[k] = Tail(w) /\ made'[k] = e /\ instant' = instant
        BY <1>2, <2>5, <3>3
      <4> HIDE DEF w, e
      <4>4. Lost(k)' = Len(e) - Len(w) + 1
        BY <2>4, <4>2, <4>3 DEF Lost
      <4>5. \A i \in 1..Len(window'[k]) : window'[k][i] = made'[k][i + Lost(k)']
        <5> SUFFICES ASSUME NEW i \in 1..(Len(w) - 1) PROVE Tail(w)[i] = e[i + Lost(k)']
          BY <2>4, <4>3
        <5>1. i + 1 \in 1..Len(w) /\ (i + 1) + (Len(e) - Len(w)) = i + Lost(k)'
          BY <2>4, <4>2, <4>4
        <5> QED
          BY <2>4, <4>2, <5>1
      <4>6. \A i \in 1..Lost(k)' : Old(made[k][i])'
        <5> SUFFICES ASSUME NEW i \in 1..Lost(k)' PROVE e[i] + WindowLength < instant
          BY <4>3 DEF Old
        <5>1. CASE i = Len(e) - Len(w) + 1
          <6>1. 1 \in 1..Len(w) /\ 1 + (Len(e) - Len(w)) = i
            BY <2>4, <4>2, <5>1
          <6> QED
            BY <4>1, <4>2, <6>1
        <5>2. CASE i # Len(e) - Len(w) + 1
          <6> DEFINE d == Len(e) - Len(w)
          <6>1. d \in Nat /\ i \in 1..(d + 1) /\ i # d + 1
            BY <2>4, <4>2, <4>4, <5>2
          <6>2. \A l \in 1..d : e[l] + WindowLength < instant
            BY <4>2
          <6> HIDE DEF d
          <6>3. i \in 1..d
            BY <6>1
          <6> QED
            BY <6>2, <6>3
        <5> QED
          BY <5>1, <5>2
      <4>7. Len(window'[k]) <= Len(made'[k])
        BY <2>4, <4>2, <4>3
      <4> QED
        BY <4>5, <4>6, <4>7 DEF Faithful
    <3> QED
      BY <3>2, <3>3
  <2> QED
    BY <1>2, <1>4, <2>3, <2>7, <2>8 DEF MonitorInv
<1> QED
  BY <1>5, <1>6

LEMMA PassesStep ==
  ASSUME MonitorInv, Passes
  PROVE  MonitorInv'
<1>1. /\ UNCHANGED <<window, configured, quarantined, stateFile, thread, epoch, epochFile, made, due,
                     spoiled, raced>>
      /\ instant' = instant + 1
  BY DEF Passes
<1>2. Monitoring /\ instant \in Nat /\ WindowLength \in Nat /\ MaxEvents \in Nat
  BY QuarantineAssumption DEF MonitorInv, Monitoring
<1>3. Monitoring'
  BY <1>1, <1>2 DEF Monitoring
<1>4. (Counting => Counting') /\ (Saving => Saving') /\ EpochKept'
  BY <1>1 DEF Counting, Saving, MonitorInv, EpochKept
<1>5. ASSUME NEW m \in Metrics
      PROVE  /\ Faithful(m) => Faithful(m)'
             /\ Cardinality(Recent(m)') > MaxEvents => Cardinality(Recent(m)) > MaxEvents
  <2>1. made[m] \in Seq(Nat) /\ made'[m] = made[m] /\ window'[m] = window[m] /\ Lost(m)' = Lost(m)
    BY <1>1, <1>2 DEF Monitoring, Lost
  <2>2. Len(made[m]) \in Nat /\ DOMAIN made[m] = 1..Len(made[m]) /\ \A i \in DOMAIN made[m] : made[m][i] \in Nat
    BY <2>1
  <2>3. Recent(m)' \subseteq Recent(m)
    BY <1>1, <1>2, <2>1, <2>2 DEF Recent
  <2>4. Cardinality(Recent(m)') <= Cardinality(Recent(m)) /\ Cardinality(Recent(m)) \in Nat
        /\ Cardinality(Recent(m)') \in Nat
    BY <1>2, <2>3, RecentIsFinite, FS_Subset, FS_CardinalityType
  <2>5. Faithful(m) => Faithful(m)'
    <3> SUFFICES ASSUME Faithful(m) PROVE Faithful(m)'
      OBVIOUS
    <3> DEFINE e == made[m]
               d == Lost(m)
    <3>1. Len(window[m]) \in Nat /\ Len(window[m]) <= Len(e) /\ d = Len(e) - Len(window[m])
      BY <1>2 DEF Faithful, Lost, Monitoring
    <3>2. \A i \in 1..d : e[i] + WindowLength < instant
      BY Zenon DEF Faithful, Old
    <3>3. Len(e) \in Nat /\ \A i \in 1..Len(e) : e[i] \in Nat
      BY <2>2
    <3> HIDE DEF e, d
    <3>4. \A i \in 1..d : e[i] + WindowLength < instant'
      <4> SUFFICES ASSUME NEW i \in 1..d PROVE e[i] + WindowLength < instant'
        OBVIOUS
      <4>1. i \in 1..Len(e)
        BY <3>1, <3>3
      <4>2. e[i] \in Nat /\ e[i] + WindowLength < instant
        BY <3>2, <3>3, <4>1
      <4> QED
        BY <1>1, <1>2, <4>2
    <3> QED
      BY <2>1, <3>4 DEF Faithful, Old, d, e
  <2> QED
    BY <1>2, <2>4, <2>5
<1> QED
  BY <1>1, <1>3, <1>4, <1>5 DEF MonitorInv

LEMMA FreshMonitor ==
  ASSUME window = [m \in Metrics |-> <<>>], made = [m \in Metrics |-> <<>>],
         thread = [t \in Threads |-> Resting], instant \in Nat,
         configured \in {"on", "off", "unreadable"}
  PROVE  /\ Monitoring
         /\ \A m \in Metrics : Faithful(m) /\ ~(Cardinality(Recent(m)) > MaxEvents)
<1>1. <<>> \in Seq(Nat) /\ <<>> \in Seq(Metrics)
  OBVIOUS
<1>2. Monitoring
  BY <1>1 DEF Monitoring, Resting, Posts
<1>3. ASSUME NEW m \in Metrics
      PROVE  Faithful(m) /\ ~(Cardinality(Recent(m)) > MaxEvents)
  <2>1. window[m] = <<>> /\ made[m] = <<>>
    OBVIOUS
  <2>2. Faithful(m) /\ Recent(m) = {}
    BY <2>1 DEF Faithful, Lost, Recent
  <2> QED
    BY <2>2, FS_EmptySet, QuarantineAssumption
<1> QED
  BY <1>2, <1>3

\* FreshMonitor in the next state.
LEMMA FreshMonitorNext ==
  ASSUME window' = [m \in Metrics |-> <<>>], made' = [m \in Metrics |-> <<>>],
         thread' = [t \in Threads |-> Resting], instant' \in Nat,
         configured' \in {"on", "off", "unreadable"}
  PROVE  /\ Monitoring'
         /\ \A m \in Metrics : Faithful(m)' /\ ~(Cardinality(Recent(m)') > MaxEvents)
<1>1. <<>> \in Seq(Nat) /\ <<>> \in Seq(Metrics)
  OBVIOUS
<1>2. Monitoring'
  BY <1>1 DEF Monitoring, Resting, Posts
<1>3. ASSUME NEW m \in Metrics
      PROVE  Faithful(m)' /\ ~(Cardinality(Recent(m)') > MaxEvents)
  <2>1. window'[m] = <<>> /\ made'[m] = <<>>
    OBVIOUS
  <2>2. Faithful(m)' /\ Recent(m)' = {}
    BY <2>1 DEF Faithful, Lost, Recent
  <2> QED
    BY <2>2, FS_EmptySet, QuarantineAssumption
<1> QED
  BY <1>2, <1>3

LEMMA RestartsStep ==
  ASSUME MonitorInv, Restarts
  PROVE  MonitorInv'
<1>1. /\ StartsAt(instant, stateFile, epochFile) /\ UNCHANGED <<instant, stateFile, due, raced>>
      /\ spoiled' <=> (spoiled \/ Saving)
  BY DEF Restarts, Saving
<1>2. /\ Monitoring'
      /\ \A m \in Metrics : Faithful(m)' /\ ~(Cardinality(Recent(m)') > MaxEvents)
  BY <1>1, FreshMonitorNext DEF StartsAt, MonitorInv, Monitoring
<1>3. due' /\ ~spoiled' => quarantined' /\ stateFile' = "quarantine"
  BY <1>1 DEF MonitorInv, StartsAt
<1>4. EpochKept'
  BY <1>1 DEF StartsAt, LoadEpoch, EpochKept
<1> QED
  BY <1>2, <1>3, <1>4 DEF MonitorInv

\* The monitor does what its comments say, for any threads, metrics, limits and
\* window and any number of restarts: bursts are noticed unless two threads
\* cleaned a window at a time, a quarantine outlives the process unless its
\* save failed, and the epoch is kept (record_*, _cleanup, _trigger_quarantine
\* and _save_state of quarantine.py).
THEOREM MonitorHolds == QuarantineSpec => []QuarantineHolds
<1>1. QuarantineInit => MonitorInv
  BY FreshMonitor DEF QuarantineInit, MonitorInv, EpochKept
<1>2. MonitorInv /\ [QuarantineNext]_quarantineVars => MonitorInv'
  <2> SUFFICES ASSUME MonitorInv, [QuarantineNext]_quarantineVars PROVE MonitorInv'
    OBVIOUS
  <2>1. CASE UNCHANGED quarantineVars
    BY <2>1 DEF quarantineVars, MonitorInv, Monitoring, Faithful, Lost, Old, Recent, Counting, Saving, EpochKept
  <2> QED
    BY <2>1, RestartsStep, PassesStep, BeginsStep, AddStep, LookStep, PopStep, CountStep, SaveStep
    DEF QuarantineNext
<1>3. MonitorInv => QuarantineHolds
  BY DEF MonitorInv, QuarantineHolds, BurstsNoticed, QuarantineKept, Counting, Resting, Recent
<1> QED
  BY <1>1, <1>2, <1>3, PTL DEF QuarantineSpec

-----------------------------------------------------------------------------
(* The voice. *)

\* The counted failures before call i of some calls, since the last success.
CountedIn(calls, i) ==
    {j \in 1..i - 1 : /\ calls[j].verdict = "counted"
                      /\ \A k \in j..i - 1 : calls[k].verdict # "success"}

\* The failures that the circuit still counts.
Pending(calls) == CountedIn(calls, Len(calls) + 1)

Spared(calls) ==
    \A i \in DOMAIN calls :
        Cardinality(CountedIn(calls, i)) >= VoiceThreshold =>
            \A j \in CountedIn(calls, i) : calls[i].at >= calls[j].done + VoiceCooldown

\* A turn that may leave the machine.
Sayable(t) == t.consent /\ ~t.private /\ ~t.secret

\* What the fields of a circuit and of a runtime hold.
IsCircuit(b) ==
    /\ b = [state |-> b.state, failures |-> b.failures, opened |-> b.opened, probe |-> b.probe]
    /\ b.state \in {"closed", "open", "half_open"} /\ b.failures \in Nat /\ b.opened \in Nat

IsRuntime(rt) ==
    /\ rt = [breaker |-> rt.breaker, calls |-> rt.calls, lost |-> rt.lost]
    /\ IsCircuit(rt.breaker) /\ rt.calls \in Seq(VoiceCalls)

\* A runtime whose circuit says what its calls say.
CircuitTrue(rt) ==
    /\ IsRuntime(rt)
    /\ rt.breaker.failures = Cardinality(Pending(rt.calls))
    /\ rt.breaker.state = "closed" => rt.breaker.failures < VoiceThreshold
    /\ rt.breaker.state # "closed" =>
          \A j \in Pending(rt.calls) : rt.calls[j].done <= rt.breaker.opened
    /\ rt.breaker.state = "half_open" => rt.breaker.opened + VoiceCooldown <= voiceClock
    /\ \A j \in DOMAIN rt.calls : rt.calls[j].done <= voiceClock /\ Sayable(rt.calls[j].turn)
    /\ Spared(rt.calls)

\* A turn at the provider: allowed by the circuit, and by its speaker.
Admitted(s, b) ==
    /\ s.turn \in VoiceTurns /\ s.at \in Nat
    /\ Sayable(s.turn)
    /\ s.at <= voiceClock
    /\ b.state # "open"
    /\ b.state = "half_open" => b.opened + VoiceCooldown <= s.at

\* The inductive invariant.
VoiceInv ==
    /\ voiceClock \in Nat
    /\ CircuitTrue(runtime)
    /\ \A m \in deployment : Accepted(m)
    /\ \A s \in speaking : Admitted(s, runtime.breaker)
    /\ runtime.breaker.probe => runtime.lost \/ speaking # {}
    /\ \A t \in answer.turn : ~Sayable(t) => answer.fallback = "text-only"

LEMMA PendingIsFinite ==
  ASSUME NEW calls \in Seq(VoiceCalls)
  PROVE  /\ IsFiniteSet(Pending(calls)) /\ Cardinality(Pending(calls)) \in Nat
         /\ Pending(calls) \subseteq 1..Len(calls)
         /\ \A i \in 1..Len(calls) : CountedIn(calls, i) \subseteq 1..Len(calls)
         /\ \A i \in 1..Len(calls) : calls[i].done \in Nat
<1>1. Len(calls) \in Nat
  OBVIOUS
<1>2. Pending(calls) \subseteq 1..Len(calls)
  BY <1>1 DEF Pending, CountedIn
<1>3. IsFiniteSet(1..Len(calls))
  BY <1>1, FS_Interval
<1>4. \A i \in 1..Len(calls) : CountedIn(calls, i) \subseteq 1..Len(calls)
  BY <1>1 DEF CountedIn
<1>5. \A i \in 1..Len(calls) : calls[i] \in VoiceCalls
  OBVIOUS
<1>6. \A i \in 1..Len(calls) : calls[i].done \in Nat
  BY <1>5 DEF VoiceCalls
<1> QED
  BY <1>2, <1>3, <1>4, <1>6, FS_Subset, FS_CardinalityType

\* A call more: its verdict clears, adds to or leaves what is counted.
LEMMA OneCallMore ==
  ASSUME NEW calls \in Seq(VoiceCalls), NEW c \in VoiceCalls
  PROVE  LET new == Append(calls, c)
             n == Len(calls) + 1
         IN /\ new \in Seq(VoiceCalls) /\ Len(new) = n /\ DOMAIN new = 1..n
            /\ new[n] = c /\ \A j \in 1..Len(calls) : new[j] = calls[j]
            /\ n \notin Pending(calls)
            /\ c.verdict = "success" => Pending(new) = {}
            /\ c.verdict = "counted" => Pending(new) = Pending(calls) \cup {n}
            /\ c.verdict = "ignored" => Pending(new) = Pending(calls)
            /\ CountedIn(new, n) = Pending(calls)
            /\ \A i \in 1..Len(calls) : CountedIn(new, i) = CountedIn(calls, i)
<1> DEFINE new == Append(calls, c)
           n == Len(calls) + 1
<1>1. /\ new \in Seq(VoiceCalls) /\ Len(new) = n /\ DOMAIN new = 1..n
      /\ new[n] = c /\ \A j \in 1..Len(calls) : new[j] = calls[j]
      /\ Len(calls) \in Nat /\ n \in Nat /\ n - 1 = Len(calls) /\ (n + 1) - 1 = n
  OBVIOUS
<1> HIDE DEF new, n
<1>2. Pending(calls) = {j \in 1..Len(calls) : /\ calls[j].verdict = "counted"
                                              /\ \A k \in j..Len(calls) : calls[k].verdict # "success"}
  BY <1>1 DEF Pending, CountedIn, n
<1>3. Pending(new) = {j \in 1..n : new[j].verdict = "counted" /\ \A k \in j..n : new[k].verdict # "success"}
  BY <1>1 DEF Pending, CountedIn
<1>4. CountedIn(new, n) = Pending(calls)
  <2>1. CountedIn(new, n) = {j \in 1..Len(calls) : /\ new[j].verdict = "counted"
                                                  /\ \A k \in j..Len(calls) : new[k].verdict # "success"}
    BY <1>1 DEF CountedIn
  <2>2. \A j \in 1..Len(calls) : \A k \in j..Len(calls) : k \in 1..Len(calls)
    BY <1>1
  <2>3. \A j \in 1..Len(calls) :
          (\A k \in j..Len(calls) : new[k].verdict # "success")
             <=> (\A k \in j..Len(calls) : calls[k].verdict # "success")
    BY <1>1, <2>2
  <2> QED
    BY <1>1, <1>2, <2>1, <2>3
<1>5. \A i \in 1..Len(calls) : CountedIn(new, i) = CountedIn(calls, i)
  BY <1>1 DEF CountedIn
<1>6. n \notin Pending(calls)
  BY <1>1, <1>2
<1>7. \A j \in 1..Len(calls) : (\A k \in j..n : new[k].verdict # "success") <=>
         (c.verdict # "success" /\ \A k \in j..Len(calls) : calls[k].verdict # "success")
  BY <1>1
<1>8. CASE c.verdict = "success"
  BY <1>1, <1>3, <1>4, <1>5, <1>6, <1>8 DEF new, n
<1>9. CASE c.verdict = "counted"
  <2>1. ASSUME NEW j PROVE j \in Pending(new) <=> j \in Pending(calls) \cup {n}
    <3>1. CASE j = n
      <4>1. \A k \in n..n : k = n
        BY <1>1
      <4>2. n \in 1..n /\ \A k \in n..n : new[k].verdict # "success"
        BY <1>1, <1>9, <4>1
      <4> QED
        BY <1>1, <1>3, <1>9, <3>1, <4>2
    <3>2. CASE j # n
      <4>1. j \in 1..n <=> j \in 1..Len(calls)
        BY <1>1, <3>2
      <4>2. CASE j \in 1..Len(calls)
        BY <1>1, <1>2, <1>3, <1>7, <1>9, <3>2, <4>1, <4>2
      <4> QED
        BY <1>2, <1>3, <3>2, <4>1, <4>2
    <3> QED
      BY <3>1, <3>2
  <2>2. Pending(new) = Pending(calls) \cup {n}
    BY <2>1
  <2> QED
    BY <1>1, <1>4, <1>5, <1>6, <1>9, <2>2 DEF new, n
<1>10. CASE c.verdict \notin {"success", "counted"}
  <2>1. ASSUME NEW j PROVE j \in Pending(new) <=> j \in Pending(calls)
    <3>1. CASE j = n
      <4>1. n \notin Pending(calls)
        BY <1>6
      <4>2. c.verdict = "ignored" => new[n].verdict # "counted"
        BY <1>1
      <4> QED
        BY <1>1, <1>3, <1>10, <3>1, <4>1, <4>2
    <3>2. CASE j # n
      <4>1. j \in 1..n <=> j \in 1..Len(calls)
        BY <1>1, <3>2
      <4>2. CASE j \in 1..Len(calls)
        BY <1>1, <1>2, <1>3, <1>7, <1>10, <3>2, <4>1, <4>2
      <4> QED
        BY <1>2, <1>3, <3>2, <4>1, <4>2
    <3> QED
      BY <3>1, <3>2
  <2>2. Pending(new) = Pending(calls)
    BY <2>1
  <2> QED
    BY <1>1, <1>4, <1>5, <1>6, <1>10, <2>2 DEF new, n
<1> QED
  BY <1>8, <1>9, <1>10

\* What an answer does to the circuit, field by field.
LEMMA RecordedCircuit ==
  ASSUME NEW o, IsCircuit(o), voiceClock \in Nat, NEW v
  PROVE  LET b == Recorded(o, v)
             opens == o.state = "half_open" \/ o.failures + 1 >= VoiceThreshold
         IN /\ v = "success" => b = NewBreaker
            /\ v = "ignored" =>
                  /\ IsCircuit(b) /\ b.probe = FALSE /\ b.state = o.state
                  /\ b.failures = o.failures /\ b.opened = o.opened
            /\ v = "counted" =>
                  /\ IsCircuit(b) /\ b.probe = FALSE /\ b.failures = o.failures + 1
                  /\ opens => b.state = "open" /\ b.opened = voiceClock
                  /\ ~opens => b.state = o.state /\ b.opened = o.opened
<1> DEFINE b == Recorded(o, v)
           opens == o.state = "half_open" \/ o.failures + 1 >= VoiceThreshold
<1>1. /\ o = [state |-> o.state, failures |-> o.failures, opened |-> o.opened, probe |-> o.probe]
      /\ o.state \in {"closed", "open", "half_open"} /\ o.failures \in Nat /\ o.opened \in Nat
  BY DEF IsCircuit
<1>2. v = "success" => b = NewBreaker
  BY Zenon DEF Recorded
<1>3. CASE v = "ignored"
  <2>1. v # "success"
    BY <1>3
  <2>2. b = [o EXCEPT !.probe = FALSE]
    BY <1>3, <2>1, Zenon DEF Recorded
  <2>3. b = [state |-> o.state, failures |-> o.failures, opened |-> o.opened, probe |-> FALSE]
    BY <1>1, <2>2
  <2> HIDE DEF b
  <2>4. IsCircuit(b) /\ b.probe = FALSE /\ b.state = o.state /\ b.failures = o.failures /\ b.opened = o.opened
    BY <1>1, <2>3 DEF IsCircuit
  <2> QED
    BY <1>3, <2>4 DEF b
<1>4. CASE v = "counted"
  <2>1. v # "success" /\ v # "ignored"
    BY <1>4, SMT
  <2>2. CASE opens
    <3>1. b = [state |-> "open", failures |-> o.failures + 1, opened |-> voiceClock, probe |-> FALSE]
      BY <1>4, <2>1, <2>2, Zenon DEF Recorded
    <3> HIDE DEF b
    <3>2. /\ IsCircuit(b) /\ b.probe = FALSE /\ b.failures = o.failures + 1
          /\ b.state = "open" /\ b.opened = voiceClock
      BY <1>1, <3>1 DEF IsCircuit
    <3> QED
      BY <1>4, <2>2, <3>2 DEF b
  <2>3. CASE ~opens
    <3>1. b = [o EXCEPT !.failures = @ + 1, !.probe = FALSE]
      BY <2>1, <2>3, Zenon DEF Recorded
    <3>2. b = [state |-> o.state, failures |-> o.failures + 1, opened |-> o.opened, probe |-> FALSE]
      BY <1>1, <3>1
    <3> HIDE DEF b
    <3>3. /\ IsCircuit(b) /\ b.probe = FALSE /\ b.failures = o.failures + 1
          /\ b.state = o.state /\ b.opened = o.opened
      BY <1>1, <3>2 DEF IsCircuit
    <3> QED
      BY <1>4, <2>3, <3>3 DEF b
  <2> QED
    BY <2>2, <2>3
<1> QED
  BY <1>2, <1>3, <1>4

LEMMA AnsweredCircuit ==
  ASSUME VoiceInv, NEW s \in speaking, NEW v \in {"success", "counted", "ignored"},
         NEW c, c = [turn |-> s.turn, at |-> s.at, done |-> voiceClock, verdict |-> v]
  PROVE  LET b == Recorded(runtime.breaker, v)
         IN /\ CircuitTrue([breaker |-> b, calls |-> Append(runtime.calls, c), lost |-> runtime.lost])
            /\ b.probe = FALSE
<1> DEFINE o == runtime.breaker
           calls == runtime.calls
           b == Recorded(o, v)
           new == Append(calls, c)
           n == Len(calls) + 1
           pending == Pending(calls)
<1>1. /\ IsCircuit(o) /\ calls \in Seq(VoiceCalls) /\ voiceClock \in Nat
      /\ VoiceThreshold \in Nat \ {0} /\ VoiceCooldown \in Nat
  BY VoiceAssumption DEF VoiceInv, CircuitTrue, IsRuntime
<1>2. /\ o.failures = Cardinality(pending)
      /\ o.state = "closed" => o.failures < VoiceThreshold
      /\ o.state # "closed" => \A j \in pending : calls[j].done <= o.opened
      /\ \A j \in 1..Len(calls) : calls[j].done <= voiceClock /\ Sayable(calls[j].turn)
      /\ Spared(calls)
  BY <1>1 DEF VoiceInv, CircuitTrue
<1>3. /\ s.turn \in VoiceTurns /\ s.at \in Nat /\ Sayable(s.turn)
      /\ o.state # "open" /\ (o.state = "half_open" => o.opened + VoiceCooldown <= s.at)
  BY DEF VoiceInv, Admitted
<1>4. c \in VoiceCalls /\ c.at = s.at /\ c.done = voiceClock /\ c.turn = s.turn /\ c.verdict = v
  BY <1>1, <1>3 DEF VoiceCalls
<1>5. /\ new \in Seq(VoiceCalls) /\ Len(new) = n /\ DOMAIN new = 1..n
      /\ new[n] = c /\ \A j \in 1..Len(calls) : new[j] = calls[j]
      /\ n \notin pending
      /\ c.verdict = "success" => Pending(new) = {}
      /\ c.verdict = "counted" => Pending(new) = pending \cup {n}
      /\ c.verdict = "ignored" => Pending(new) = pending
      /\ CountedIn(new, n) = pending
      /\ \A i \in 1..Len(calls) : CountedIn(new, i) = CountedIn(calls, i)
  BY <1>1, <1>4, OneCallMore
<1>6. IsFiniteSet(pending) /\ Cardinality(pending) \in Nat /\ pending \subseteq 1..Len(calls)
      /\ Len(calls) \in Nat /\ DOMAIN calls = 1..Len(calls)
  <2>1. calls \in Seq(VoiceCalls)
    BY <1>1
  <2> HIDE DEF calls
  <2> QED
    BY <2>1, PendingIsFinite
<1>7. \A i \in 1..Len(calls) : CountedIn(calls, i) \subseteq 1..Len(calls)
  BY <1>1, PendingIsFinite
<1>8. \A i \in 1..Len(calls) : calls[i].done \in Nat
  BY <1>1, PendingIsFinite
<1> HIDE DEF new, n, pending, o, calls
<1>9. Spared(new)
  <2> SUFFICES ASSUME NEW i \in 1..n, Cardinality(CountedIn(new, i)) >= VoiceThreshold,
                      NEW j \in CountedIn(new, i)
               PROVE  new[i].at >= new[j].done + VoiceCooldown
    BY <1>5 DEF Spared
  <2>1. CASE i = n
    <3>1. Cardinality(pending) >= VoiceThreshold /\ j \in pending /\ j \in 1..Len(calls)
      BY <1>5, <1>6, <2>1
    <3>2. ~(o.failures < VoiceThreshold)
      BY <1>1, <1>2, <1>6, <3>1
    <3>3. o.state = "half_open" /\ calls[j].done <= o.opened /\ o.opened \in Nat
      BY <1>1, <1>2, <1>3, <3>1, <3>2 DEF IsCircuit
    <3>4. new[i].at = s.at /\ new[j].done = calls[j].done /\ calls[j].done \in Nat
      BY <1>4, <1>5, <1>8, <2>1, <3>1
    <3>5. o.opened + VoiceCooldown <= s.at /\ s.at \in Nat /\ VoiceCooldown \in Nat
      BY <1>1, <1>3, <3>3
    <3> QED
      BY <3>3, <3>4, <3>5
  <2>2. CASE i # n
    <3>1. i \in 1..Len(calls)
      BY <1>6, <2>2 DEF n
    <3>2. j \in CountedIn(calls, i) /\ j \in 1..Len(calls) /\ Cardinality(CountedIn(calls, i)) >= VoiceThreshold
      BY <1>5, <1>7, <3>1
    <3>3. calls[i].at >= calls[j].done + VoiceCooldown
      BY <1>2, <1>6, <3>1, <3>2 DEF Spared
    <3> QED
      BY <1>5, <3>1, <3>2, <3>3
  <2> QED
    BY <2>1, <2>2
<1>10. \A j \in 1..n : new[j].done <= voiceClock /\ Sayable(new[j].turn)
  <2> SUFFICES ASSUME NEW j \in 1..n PROVE new[j].done <= voiceClock /\ Sayable(new[j].turn)
    OBVIOUS
  <2>1. CASE j = n
    BY <1>1, <1>3, <1>4, <1>5, <2>1
  <2>2. CASE j # n
    <3>1. j \in 1..Len(calls)
      BY <1>6, <2>2 DEF n
    <3> QED
      BY <1>2, <1>5, <3>1
  <2> QED
    BY <2>1, <2>2
<1>11. /\ IsCircuit(b) /\ b.probe = FALSE
       /\ b.failures = Cardinality(Pending(new))
       /\ b.state = "closed" => b.failures < VoiceThreshold
       /\ b.state # "closed" => \A j \in Pending(new) : new[j].done <= b.opened
       /\ b.state = "half_open" => b.opened + VoiceCooldown <= voiceClock
  <2>1. o.state \in {"closed", "open", "half_open"} /\ o.failures \in Nat /\ o.opened \in Nat
        /\ s.at <= voiceClock
    BY <1>1 DEF IsCircuit, VoiceInv, Admitted
  <2>2. CASE v = "success"
    <3>1. b = NewBreaker
      BY <1>1, <2>2, RecordedCircuit
    <3>2. Pending(new) = {}
      BY <1>4, <1>5, <2>2
    <3> HIDE DEF b
    <3>3. IsCircuit(b) /\ b.probe = FALSE /\ b.failures = 0 /\ b.state = "closed"
      BY <3>1 DEF NewBreaker, IsCircuit
    <3> QED
      BY <1>1, <3>2, <3>3, FS_EmptySet
  <2>3. CASE v = "ignored"
    <3>1. IsCircuit(b) /\ b.probe = FALSE /\ b.state = o.state /\ b.failures = o.failures /\ b.opened = o.opened
      BY <1>1, <2>3, RecordedCircuit
    <3>2. Pending(new) = pending
      BY <1>4, <1>5, <2>3
    <3>3. \A j \in pending : new[j] = calls[j]
      BY <1>5, <1>6
    <3> HIDE DEF b
    <3> QED
      BY <1>1, <1>2, <1>3, <2>1, <3>1, <3>2, <3>3
  <2>4. CASE v = "counted"
    <3> DEFINE opens == o.state = "half_open" \/ o.failures + 1 >= VoiceThreshold
    <3>1. /\ IsCircuit(b) /\ b.probe = FALSE /\ b.failures = o.failures + 1
          /\ opens => b.state = "open" /\ b.opened = voiceClock
          /\ ~opens => b.state = o.state /\ b.opened = o.opened
      BY <1>1, <2>4, RecordedCircuit
    <3> HIDE DEF b
    <3>2. Pending(new) = pending \cup {n}
      BY <1>4, <1>5, <2>4
    <3>3. Cardinality(pending \cup {n}) = Cardinality(pending) + 1
      BY <1>5, <1>6, FS_AddElement
    <3>4. Cardinality(Pending(new)) = o.failures + 1
      BY <1>2, <3>2, <3>3
    <3>5. \A j \in Pending(new) : new[j].done <= voiceClock
      <4> SUFFICES ASSUME NEW j \in Pending(new) PROVE new[j].done <= voiceClock
        OBVIOUS
      <4>1. j \in 1..n
        <5>1. n \in 1..n /\ 1..Len(calls) \subseteq 1..n
          BY <1>6 DEF n
        <5> QED
          BY <1>6, <3>2, <5>1
      <4> QED
        BY <1>10, <4>1
    <3>6. CASE opens
      BY <3>1, <3>4, <3>5, <3>6
    <3>7. CASE ~opens
      <4>1. b.state = "closed"
        BY <1>3, <2>1, <3>1, <3>7
      <4>2. b.failures < VoiceThreshold
        BY <1>1, <2>1, <3>1, <3>7
      <4> QED
        BY <3>1, <3>4, <4>1, <4>2
    <3> QED
      BY <3>6, <3>7
  <2> QED
    BY <2>2, <2>3, <2>4
<1> HIDE DEF b
<1>12. CircuitTrue([breaker |-> b, calls |-> new, lost |-> runtime.lost])
  BY <1>1, <1>5, <1>9, <1>10, <1>11 DEF CircuitTrue, IsRuntime
<1> QED
  BY <1>11, <1>12 DEF b, new, o, calls

LEMMA AnswersStep ==
  ASSUME VoiceInv, NEW reply \in Replies, ProviderAnswers(reply)
  PROVE  VoiceInv'
<1> DEFINE v == Verdict(reply)
<1>1. v \in {"success", "counted", "ignored"}
  BY DEF Verdict
<1> HIDE DEF v
<1>2. PICK s \in speaking :
        /\ runtime' = [runtime EXCEPT
              !.breaker = Recorded(@, v),
              !.calls = Append(@, [turn |-> s.turn, at |-> s.at, done |-> voiceClock, verdict |-> v])]
        /\ answer' = Answer(s.turn, IF reply = "audio" THEN "succeeded" ELSE "fallback_required")
  BY DEF ProviderAnswers, v
<1>3. speaking' = {} /\ UNCHANGED <<voiceClock, deployment>>
  BY DEF ProviderAnswers
<1> DEFINE c == [turn |-> s.turn, at |-> s.at, done |-> voiceClock, verdict |-> v]
           b == Recorded(runtime.breaker, v)
<1>4. runtime' = [breaker |-> b, calls |-> Append(runtime.calls, c), lost |-> runtime.lost]
  BY <1>2 DEF VoiceInv, CircuitTrue, IsRuntime
<1>5. CircuitTrue(runtime') /\ runtime'.breaker.probe = FALSE
  BY <1>1, <1>4, AnsweredCircuit
<1>6. CircuitTrue(runtime)'
  BY <1>3, <1>5 DEF CircuitTrue
<1>7. \A t \in answer'.turn : Sayable(t)
  BY <1>2 DEF Answer, VoiceInv, Admitted
<1> QED
  BY <1>3, <1>5, <1>6, <1>7 DEF VoiceInv

\* A turn on a runtime whose circuit says what its calls say.
LEMMA SynthesizeStep ==
  ASSUME VoiceInv, NEW rt, CircuitTrue(rt), rt.breaker.probe => rt.lost,
         NEW t \in VoiceTurns, Synthesize(t, rt)
  PROVE  VoiceInv'
<1>1. PICK m \in deployment :
        LET gate == PrivacyGate(m, t)
            b == IF gate = "passed" THEN Cooled(rt.breaker) ELSE rt.breaker
        IN \/ /\ gate # "passed" \/ ~Allows(b)
              /\ answer' = Answer(t, IF gate # "passed" THEN gate ELSE "circuit_open")
              /\ runtime' = [rt EXCEPT !.breaker = b]
              /\ UNCHANGED speaking
           \/ /\ gate = "passed" /\ Allows(b)
              /\ runtime' = [rt EXCEPT !.breaker = [b EXCEPT !.probe = (b.state = "half_open")],
                                       !.lost = @ \/ (Refused(t) /\ b.state = "half_open")]
              /\ speaking' = IF Refused(t) THEN {} ELSE {[turn |-> t, at |-> voiceClock]}
              /\ answer' = IF Refused(t) THEN Answer(t, "raised") ELSE answer
  BY DEF Synthesize
<1> DEFINE gate == PrivacyGate(m, t)
           b == IF gate = "passed" THEN Cooled(rt.breaker) ELSE rt.breaker
<1>2. /\ speaking = {} /\ UNCHANGED <<voiceClock, deployment>> /\ voiceClock \in Nat
      /\ IsCircuit(rt.breaker) /\ rt = [breaker |-> rt.breaker, calls |-> rt.calls, lost |-> rt.lost]
      /\ VoiceCooldown \in Nat
  BY VoiceAssumption DEF Synthesize, CircuitTrue, IsRuntime, VoiceInv
<1>3. /\ gate = "passed" => Sayable(t)
      /\ gate # "passed" => gate \in {"private_text_only", "consent_required", "secret_class"}
  BY DEF PrivacyGate, Sayable, VoiceInv, Accepted
<1> HIDE DEF gate
\* Asking the circuit changes its state only when it has cooled down.
<1>4. /\ IsCircuit(b) /\ b.failures = rt.breaker.failures /\ b.opened = rt.breaker.opened
      /\ b.state = "closed" <=> rt.breaker.state = "closed"
      /\ b.state = "half_open" => b.opened + VoiceCooldown <= voiceClock
      /\ b.probe => rt.breaker.probe
  <2>1. CASE b = rt.breaker
    <3>1. rt.breaker.state = "half_open" => rt.breaker.opened + VoiceCooldown <= voiceClock
      BY DEF CircuitTrue
    <3> QED
      BY <1>2, <2>1, <3>1
  <2>2. CASE /\ b = [rt.breaker EXCEPT !.state = "half_open", !.probe = FALSE]
             /\ rt.breaker.state = "open" /\ voiceClock - rt.breaker.opened >= VoiceCooldown
    <3> DEFINE o == rt.breaker
    <3>1. o = [state |-> o.state, failures |-> o.failures, opened |-> o.opened, probe |-> o.probe]
          /\ o.failures \in Nat /\ o.opened \in Nat
      BY <1>2 DEF IsCircuit
    <3>2. b = [state |-> "half_open", failures |-> o.failures, opened |-> o.opened, probe |-> FALSE]
      BY <2>2, <3>1
    <3>3. o.opened + VoiceCooldown <= voiceClock
      BY <1>2, <2>2, <3>1
    <3> HIDE DEF b, o
    <3>4. IsCircuit(b) /\ b.state = "half_open" /\ b.failures = o.failures /\ b.opened = o.opened
          /\ b.probe = FALSE
      BY <3>1, <3>2 DEF IsCircuit
    <3> QED
      BY <2>2, <3>3, <3>4 DEF o
  <2> QED
    BY <2>1, <2>2 DEF Cooled
<1> HIDE DEF b
<1>5. ASSUME NEW d, IsCircuit(d), NEW l,
             d.state = b.state, d.failures = b.failures, d.opened = b.opened,
             runtime' = [breaker |-> d, calls |-> rt.calls, lost |-> l]
      PROVE  CircuitTrue(runtime)'
  <2> DEFINE new == [breaker |-> d, calls |-> rt.calls, lost |-> l]
  <2>1. CircuitTrue(new)
    BY <1>4, <1>5 DEF CircuitTrue, IsRuntime
  <2> HIDE DEF new
  <2>2. runtime' = new
    BY <1>5 DEF new
  <2> QED
    BY <1>2, <2>1, <2>2 DEF CircuitTrue, IsRuntime, IsCircuit
<1>6. CASE /\ gate # "passed" \/ ~Allows(b)
           /\ answer' = Answer(t, IF gate # "passed" THEN gate ELSE "circuit_open")
           /\ runtime' = [rt EXCEPT !.breaker = b]
           /\ UNCHANGED speaking
  <2>1. runtime' = [breaker |-> b, calls |-> rt.calls, lost |-> rt.lost]
    BY <1>2, <1>6
  <2>2. CircuitTrue(runtime)'
    BY <1>4, <1>5, <2>1
  <2>3. \A u \in answer'.turn : ~Sayable(u) => answer'.fallback = "text-only"
    BY <1>3, <1>6 DEF Answer
  <2>4. runtime'.breaker.probe => runtime'.lost
    BY <1>4, <2>1
  <2> QED
    BY <1>2, <1>6, <2>2, <2>3, <2>4 DEF VoiceInv
<1>7. CASE /\ gate = "passed" /\ Allows(b)
           /\ runtime' = [rt EXCEPT !.breaker = [b EXCEPT !.probe = (b.state = "half_open")],
                                    !.lost = @ \/ (Refused(t) /\ b.state = "half_open")]
           /\ speaking' = IF Refused(t) THEN {} ELSE {[turn |-> t, at |-> voiceClock]}
           /\ answer' = IF Refused(t) THEN Answer(t, "raised") ELSE answer
  <2> DEFINE d == [b EXCEPT !.probe = (b.state = "half_open")]
             l == (rt.lost \/ (Refused(t) /\ b.state = "half_open"))
  <2>1. d = [state |-> b.state, failures |-> b.failures, opened |-> b.opened, probe |-> (b.state = "half_open")]
    BY <1>4 DEF IsCircuit
  <2>2. runtime' = [breaker |-> d, calls |-> rt.calls, lost |-> l]
    BY <1>2, <1>7
  <2> HIDE DEF d, l
  <2>3. IsCircuit(d) /\ d.state = b.state /\ d.failures = b.failures /\ d.opened = b.opened
        /\ (d.probe <=> b.state = "half_open")
    BY <1>4, <2>1 DEF IsCircuit
  <2>4. CircuitTrue(runtime)'
    BY <1>5, <2>2, <2>3
  <2>5. runtime'.breaker = d /\ (runtime'.lost <=> l)
    BY <2>2
  <2>6. Sayable(t) /\ b.state # "open"
    BY <1>3, <1>7 DEF Allows
  <2>7. \A s \in speaking' : s = [turn |-> t, at |-> voiceClock]
    BY <1>7
  <2>8. \A s \in speaking' : Admitted(s, runtime.breaker)'
    BY <1>2, <1>4, <2>3, <2>5, <2>6, <2>7 DEF Admitted
  <2>9. runtime'.breaker.probe => runtime'.lost \/ speaking' # {}
    BY <1>7, <2>3, <2>5 DEF l
  <2>10. \A u \in answer'.turn : ~Sayable(u) => answer'.fallback = "text-only"
    BY <1>7, <2>6 DEF Answer, VoiceInv
  <2> QED
    BY <1>2, <2>4, <2>8, <2>9, <2>10 DEF VoiceInv
<1> QED
  BY <1>1, <1>6, <1>7, Zenon DEF gate, b

LEMMA NewCircuit == CircuitTrue(NewRuntime) /\ NewRuntime.breaker.probe = FALSE
<1>1. <<>> \in Seq(VoiceCalls) /\ Pending(<<>>) = {}
  BY DEF Pending, CountedIn
<1>2. NewRuntime.breaker = NewBreaker /\ NewRuntime.calls = <<>>
  BY DEF NewRuntime
<1>3. IsRuntime(NewRuntime)
  BY <1>1 DEF NewRuntime, NewBreaker, IsRuntime, IsCircuit
<1>4. Spared(<<>>) /\ DOMAIN <<>> = {}
  BY DEF Spared
<1>5. NewBreaker.failures = 0 /\ NewBreaker.state = "closed" /\ NewBreaker.probe = FALSE
  BY DEF NewBreaker
<1>6. Cardinality({}) = 0
  BY FS_EmptySet
<1>7. 0 < VoiceThreshold
  BY VoiceAssumption
<1> HIDE DEF NewRuntime
<1> QED
  BY <1>1, <1>2, <1>3, <1>4, <1>5, <1>6, <1>7 DEF CircuitTrue

\* The circuit and the privacy gates hold turn after turn, for any threshold,
\* cooldown, clock and number of calls: the provider is spared, only what its
\* speaker agreed to leaves the machine, and the probe comes back unless a turn
\* raised while it held it (synthesize of runtime.py, CircuitBreaker of
\* provider.py).
THEOREM SpeechIsGoverned == VoiceSpec => []SpeechGoverned
<1>1. VoiceInit => VoiceInv
  BY NewCircuit DEF VoiceInit, VoiceInv
<1>2. VoiceInv /\ [VoiceNext]_voiceVars => VoiceInv'
  <2> SUFFICES ASSUME VoiceInv, [VoiceNext]_voiceVars PROVE VoiceInv'
    OBVIOUS
  <2>1. CASE UNCHANGED voiceVars
    BY <2>1 DEF voiceVars, VoiceInv, CircuitTrue, Admitted
  <2>2. ASSUME NEW m \in Manifests, LoadManifest(m) PROVE VoiceInv'
    BY <2>2 DEF LoadManifest, VoiceInv, CircuitTrue, Admitted
  <2>3. ASSUME NEW t \in VoiceTurns, Synthesize(t, runtime) PROVE VoiceInv'
    <3>1. CircuitTrue(runtime) /\ (runtime.breaker.probe => runtime.lost)
      BY <2>3 DEF VoiceInv, Synthesize
    <3> QED
      BY <2>3, <3>1, SynthesizeStep
  <2>4. ASSUME NEW t \in VoiceTurns, WorkerRun(t) PROVE VoiceInv'
    BY <2>4, SynthesizeStep, NewCircuit DEF WorkerRun
  <2>5. CASE VoiceTick
    <3>1. /\ voiceClock \in Nat /\ voiceClock' = voiceClock + 1
          /\ UNCHANGED <<deployment, runtime, speaking, answer>>
      BY <2>5 DEF VoiceTick, VoiceInv
    <3>2. CircuitTrue(runtime)'
      <4>1. /\ runtime.breaker.opened \in Nat /\ VoiceCooldown \in Nat
            /\ \A j \in DOMAIN runtime.calls : runtime.calls[j].done \in Nat
        BY VoiceAssumption, PendingIsFinite DEF VoiceInv, CircuitTrue, IsRuntime, IsCircuit
      <4>2. CircuitTrue(runtime)
        BY DEF VoiceInv
      <4>3. runtime.breaker.state = "half_open" => runtime.breaker.opened + VoiceCooldown <= voiceClock'
        BY <3>1, <4>1, <4>2 DEF CircuitTrue
      <4>4. \A j \in DOMAIN runtime.calls : runtime.calls[j].done <= voiceClock' /\ Sayable(runtime.calls[j].turn)
        BY <3>1, <4>1, <4>2 DEF CircuitTrue
      <4> QED
        BY <3>1, <4>2, <4>3, <4>4 DEF CircuitTrue
    <3>3. \A s \in speaking : s.at \in Nat /\ s.at <= voiceClock'
      BY <3>1 DEF VoiceInv, Admitted
    <3> QED
      BY <3>1, <3>2, <3>3 DEF VoiceInv, Admitted
  <2> QED
    BY <2>1, <2>2, <2>3, <2>4, <2>5, AnswersStep DEF VoiceNext
<1>3. VoiceInv => SpeechGoverned
  <2> SUFFICES ASSUME VoiceInv PROVE SpeechGoverned
    OBVIOUS
  <2>1. ProviderSpared
    BY DEF VoiceInv, CircuitTrue, Spared, ProviderSpared, CountedIn, CountedBefore
  <2>2. SpokenWithConsent
    BY DEF VoiceInv, CircuitTrue, Admitted, Sayable, Accepted, SpokenWithConsent
  <2>3. ProbeReturns
    BY DEF VoiceInv, ProbeReturns
  <2> QED
    BY <2>1, <2>2, <2>3 DEF SpeechGoverned
<1> QED
  BY <1>1, <1>2, <1>3, PTL DEF VoiceSpec
=============================================================================
