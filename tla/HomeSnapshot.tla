---------------------------- MODULE HomeSnapshot ----------------------------
(***************************************************************************)
(* Export and import of AETHER_HOME: scripts/aether_home_snapshot.py.       *)
(*                                                                         *)
(* An export is one run of the script: it copies the home file by file      *)
(* (a database through SQLite's backup, so each file is whole) into a       *)
(* temporary directory of its own, seals it with a manifest of hashes and   *)
(* publishes it as the output directory.  Where the rename keeps failing,   *)
(* as it may on Windows, the temporary directory is copied instead, entry   *)
(* by entry.  An import goes over whatever the destination holds, where it  *)
(* is told to.  Exports to one output may overlap; the gateway may go on    *)
(* writing its home; any script may be killed.  A file is its contents, a   *)
(* manifest is the contents it has hashes of.                              *)
(***************************************************************************)
EXTENDS Naturals

CONSTANTS
    Exports,       \* runs of the export command, each used once
    HomeFiles,     \* files of the home: their ranks in the order of paths
    Evidence,      \* those under provisioning-evidence
    HomeContents,  \* contents of a file
    NoFile,        \* no file, no manifest, no directory
    MaxImports,    \* bound on runs of the import command
    MaxWrites      \* bound on writes of the gateway

ASSUME SnapshotAssumption ==
    /\ HomeFiles \subseteq Nat \ {0} /\ Exports \subseteq Nat /\ Evidence \subseteq HomeFiles
    /\ MaxImports \in Nat /\ MaxWrites \in Nat
    /\ NoFile \notin HomeContents

Manifest == 0  \* AETHER_HOME_MANIFEST.json, as an entry to copy

VARIABLES
    windows,   \* the system renames directories as Windows does
    home,      \* AETHER_HOME of the gateway
    writes,
    temp,      \* the temporary directory of each export
    exporting, \* where each export is
    left,      \* the entries each export still has to copy
    sealed,    \* what each export has sealed
    output,    \* the snapshot directory: what it holds, or NoFile
    imports,
    importing, \* where the import is
    allowed,   \* it was given --allow-nonempty
    before,    \* what the destination held when it began
    manifest,  \* the manifest the import has read
    todo,      \* the files it still has to copy
    restored   \* the destination of the import

exportVars == <<temp, exporting, left, sealed, output>>
importVars == <<imports, importing, allowed, before, manifest, todo, restored>>
snapshotVars == <<windows, home, writes, exportVars, importVars>>

Copies == [HomeFiles -> HomeContents \cup {NoFile}]
Directories == [files : Copies, manifest : Copies \cup {NoFile}]
Nothing == [f \in HomeFiles |-> NoFile]
EmptyDirectory == [files |-> Nothing, manifest |-> NoFile]

SnapshotTypeOK ==
    /\ windows \in BOOLEAN
    /\ home \in Copies
    /\ writes \in 0..MaxWrites
    /\ temp \in [Exports -> Directories]
    /\ exporting \in [Exports -> {"idle", "copying", "publishing", "fallback",
                                  "exported", "failed", "killed"}]
    /\ left \in [Exports -> SUBSET (HomeFiles \cup {Manifest})]
    /\ sealed \in [Exports -> Copies \cup {NoFile}]
    /\ output \in Directories \cup {NoFile}
    /\ imports \in 0..MaxImports
    /\ importing \in {"idle", "reading", "copying", "imported"}
    /\ allowed \in BOOLEAN
    /\ before \in Copies
    /\ manifest \in Copies
    /\ todo \subseteq HomeFiles
    /\ restored \in Copies

SnapshotInit ==
    /\ windows \in BOOLEAN
    /\ home \in Copies
    /\ writes = 0
    /\ temp = [x \in Exports |-> EmptyDirectory]
    /\ exporting = [x \in Exports |-> "idle"]
    /\ left = [x \in Exports |-> {}]
    /\ sealed = [x \in Exports |-> NoFile]
    /\ output = NoFile
    /\ imports = 0
    /\ importing = "idle"
    /\ allowed = FALSE
    /\ manifest = Nothing
    /\ todo = {}
    /\ restored \in Copies
    /\ before = restored

-----------------------------------------------------------------------------
(* verify_snapshot                                                         *)

\* _manifest_entries: a hash of every file of the directory.
ManifestOf(d) == d.files

\* verify_snapshot: the manifest is there, every file it lists is there with
\* the contents it records, and there is no other file.
SnapshotVerified(d) ==
    /\ d # NoFile
    /\ d.manifest # NoFile
    /\ d.manifest = ManifestOf(d)

-----------------------------------------------------------------------------
(* export_snapshot                                                         *)

FilesOf(copy) == {f \in HomeFiles : copy[f] # NoFile}

\* The home is listed once.
BeginExport(x) ==
    /\ exporting[x] = "idle"
    /\ IF output = NoFile
       THEN /\ exporting' = [exporting EXCEPT ![x] = "copying"]
            /\ left' = [left EXCEPT ![x] = FilesOf(home)]
       ELSE exporting' = [exporting EXCEPT ![x] = "failed"] /\ UNCHANGED left
    /\ UNCHANGED <<windows, home, writes, temp, sealed, output, importVars>>

\* The export ends with an error and its temporary directory goes.
Fail(x) ==
    /\ exporting' = [exporting EXCEPT ![x] = "failed"]
    /\ temp' = [temp EXCEPT ![x] = EmptyDirectory]
    /\ left' = [left EXCEPT ![x] = {}]

\* copy2 or backup_sqlite of one file, as the gateway has left it; one that is
\* gone ends the export.
CopyFile(x, f) ==
    /\ exporting[x] = "copying"
    /\ f \in left[x] /\ \A g \in left[x] : f <= g
    /\ IF home[f] # NoFile
       THEN /\ temp' = [temp EXCEPT ![x].files[f] = home[f]]
            /\ left' = [left EXCEPT ![x] = @ \ {f}]
            /\ UNCHANGED exporting
       ELSE Fail(x)
    /\ UNCHANGED <<windows, home, writes, sealed, output, importVars>>

\* The manifest is written and the temporary directory verified.
Seal(x) ==
    /\ exporting[x] = "copying"
    /\ left[x] = {}
    /\ temp' = [temp EXCEPT ![x].manifest = ManifestOf(temp[x])]
    /\ sealed' = [sealed EXCEPT ![x] = ManifestOf(temp[x])]
    /\ exporting' = [exporting EXCEPT ![x] = "publishing"]
    /\ UNCHANGED <<windows, home, writes, left, output, importVars>>

\* os.replace of the directory: it does not replace one that holds files.
Replace(x) ==
    /\ exporting[x] = "publishing"
    /\ output = NoFile
    /\ output' = temp[x]
    /\ temp' = [temp EXCEPT ![x] = EmptyDirectory]
    /\ exporting' = [exporting EXCEPT ![x] = "exported"]
    /\ UNCHANGED <<windows, home, writes, left, sealed, importVars>>

\* The rename fails: for good, or, on Windows, after the retries, and then
\* the directory is copied.  copytree refuses an output that exists by now,
\* and the error removes that output.
PublishFails(x) ==
    /\ exporting[x] = "publishing"
    /\ windows \/ output # NoFile
    /\ IF windows /\ output = NoFile
       THEN /\ output' = EmptyDirectory
            /\ exporting' = [exporting EXCEPT ![x] = "fallback"]
            /\ left' = [left EXCEPT ![x] = FilesOf(temp[x].files) \cup {Manifest}]
            /\ UNCHANGED temp
       ELSE /\ Fail(x)
            /\ output' = IF windows THEN NoFile ELSE output
    /\ UNCHANGED <<windows, home, writes, sealed, importVars>>

\* copytree copies one entry, over what another export may have put there;
\* an output removed meanwhile ends it.
CopyOut(x, entry) ==
    /\ exporting[x] = "fallback"
    /\ entry \in left[x]
    /\ \/ /\ output = NoFile
          /\ Fail(x)
          /\ UNCHANGED output
       \/ /\ output # NoFile
          /\ output' = IF entry = Manifest
                       THEN [output EXCEPT !.manifest = temp[x].manifest]
                       ELSE [output EXCEPT !.files[entry] = temp[x].files[entry]]
          /\ left' = [left EXCEPT ![x] = @ \ {entry}]
          /\ UNCHANGED <<temp, exporting>>
    /\ UNCHANGED <<windows, home, writes, sealed, importVars>>

\* The copy is verified before the export is reported; one that does not
\* verify is removed.
FinishFallback(x) ==
    /\ exporting[x] = "fallback"
    /\ left[x] = {}
    /\ IF SnapshotVerified(output)
       THEN /\ exporting' = [exporting EXCEPT ![x] = "exported"]
            /\ temp' = [temp EXCEPT ![x] = EmptyDirectory]
            /\ UNCHANGED <<left, output>>
       ELSE Fail(x) /\ output' = NoFile
    /\ UNCHANGED <<windows, home, writes, sealed, importVars>>

KillExport(x) ==
    /\ exporting[x] \in {"copying", "publishing", "fallback"}
    /\ exporting' = [exporting EXCEPT ![x] = "killed"]
    /\ UNCHANGED <<windows, home, writes, temp, left, sealed, output, importVars>>

-----------------------------------------------------------------------------
(* import_snapshot                                                         *)

\* The snapshot is verified; a destination with files, but for provisioning
\* evidence, needs allow_nonempty.  An import that is refused changes nothing.
BeginImport(allow) ==
    /\ importing = "idle" /\ imports < MaxImports
    /\ imports' = imports + 1
    /\ SnapshotVerified(output) /\ (allow \/ FilesOf(restored) \subseteq Evidence)
    /\ importing' = "reading"
    /\ allowed' = allow
    /\ before' = restored
    /\ UNCHANGED <<windows, home, writes, exportVars, manifest, todo, restored>>

\* The manifest is read again, from whatever is published by now.
ReadManifest ==
    /\ importing = "reading"
    /\ IF output # NoFile /\ output.manifest # NoFile
       THEN /\ manifest' = output.manifest
            /\ todo' = FilesOf(output.manifest)
            /\ importing' = "copying"
       ELSE importing' = "idle" /\ UNCHANGED <<manifest, todo>>
    /\ UNCHANGED <<windows, home, writes, exportVars, imports, allowed, before, restored>>

\* The source is there, and nothing in the way that may not be replaced.
CanCopy(f) ==
    /\ output # NoFile /\ output.files[f] # NoFile
    /\ allowed \/ restored[f] = NoFile

\* Mutant: a file that is gone ends the copying, and what was copied is reported.
CopyInReports(f) ==
    /\ importing = "copying"
    /\ f \in todo /\ \A g \in todo : f <= g
    /\ IF CanCopy(f)
       THEN /\ restored' = [restored EXCEPT ![f] = output.files[f]]
            /\ todo' = todo \ {f}
            /\ UNCHANGED importing
       ELSE importing' = "imported" /\ UNCHANGED <<todo, restored>>
    /\ UNCHANGED <<windows, home, writes, exportVars, imports, allowed, before, manifest>>

\* One file is copied; one that is gone, or in the way, ends the import.
CopyIn(f) ==
    /\ importing = "copying"
    /\ f \in todo /\ \A g \in todo : f <= g
    /\ IF CanCopy(f)
       THEN /\ restored' = [restored EXCEPT ![f] = output.files[f]]
            /\ todo' = todo \ {f}
            /\ UNCHANGED importing
       ELSE importing' = "idle" /\ UNCHANGED <<todo, restored>>
    /\ UNCHANGED <<windows, home, writes, exportVars, imports, allowed, before, manifest>>

\* Every file of the manifest has its recorded hash in the destination; what
\* else is there is not looked at.
HashesMatch == \A f \in FilesOf(manifest) : restored[f] = manifest[f]

FinishImport ==
    /\ importing = "copying"
    /\ todo = {}
    /\ importing' = IF HashesMatch THEN "imported" ELSE "idle"
    /\ UNCHANGED <<windows, home, writes, exportVars, imports, allowed, before, manifest, todo, restored>>

KillImport ==
    /\ importing \in {"reading", "copying"}
    /\ importing' = "idle"
    /\ UNCHANGED <<windows, home, writes, exportVars, imports, allowed, before, manifest, todo, restored>>

-----------------------------------------------------------------------------

\* The gateway goes on: it writes a file or deletes one (external to the script).
GatewayWrites(f, c) ==
    /\ writes < MaxWrites /\ c # home[f]
    /\ writes' = writes + 1
    /\ home' = [home EXCEPT ![f] = c]
    /\ UNCHANGED <<windows, exportVars, importVars>>

SnapshotNext ==
    \/ \E x \in Exports :
          \/ BeginExport(x) \/ Seal(x) \/ Replace(x) \/ PublishFails(x)
          \/ FinishFallback(x) \/ KillExport(x)
          \/ \E f \in HomeFiles : CopyFile(x, f)
          \/ \E e \in HomeFiles \cup {Manifest} : CopyOut(x, e)
    \/ \E allow \in BOOLEAN : BeginImport(allow)
    \/ ReadManifest \/ FinishImport \/ KillImport
    \/ \E f \in HomeFiles : CopyIn(f)
    \/ \E f \in HomeFiles, c \in HomeContents \cup {NoFile} : GatewayWrites(f, c)

SnapshotSpec == SnapshotInit /\ [][SnapshotNext]_snapshotVars

-----------------------------------------------------------------------------
(* Properties                                                              *)

\* An import that reports success has restored one snapshot: there is one
\* export such that every file it sealed is in the destination as it sealed it,
\* and every other file is what the destination held when the import began (in
\* an empty destination: none).  Never files of two exports or of a copy that
\* was cut short, although the output may be replaced, removed or half copied
\* by other exports between its verification and each of the import's copies,
\* and although the check at the end looks at listed files only.
RestoredWhole ==
    importing = "imported" =>
        \E x \in Exports :
            /\ sealed[x] # NoFile
            /\ restored = [f \in HomeFiles |->
                              IF sealed[x][f] # NoFile THEN sealed[x][f] ELSE before[f]]
=============================================================================
