--------------------------- MODULE IsoCopyProofs ---------------------------
(***************************************************************************)
(* Proofs about IsoCopy: for any images and any environment, ISOBOOTHASH   *)
(* names the image that boot.wim comes from, a copy that reports success   *)
(* leaves something that boots, and a boot.wim on ISOEFI is a good one;    *)
(* ISOBOOTHASH is truthful where nothing fails in silence.                 *)
(***************************************************************************)
EXTENDS IsoCopy, TLAPS

BootWim == data["boot.wim"]

\* Only files of the image at work, or of the recorded one, are on ISOBOOT.
Matching ==
    /\ hash # NoHash /\ BootWim # NoFile => BootWim.iso = hash.iso
    /\ ~Resting => /\ hash # NoHash => hash.iso = job.iso
                   /\ BootWim # NoFile => BootWim.iso = job.iso

\* boot.wim is whole, of the image at work, and has its start files.
Processed ==
    /\ BootWim # NoFile /\ BootWim.iso = job.iso
    /\ BootWim.whole /\ "start" \in BootWim.with

\* What bootWimSuccess vouches for, step by step.
Vouched ==
    bootOk /\ Detected(job.iso) =>
        /\ pc \in {"mount", "copy boot.wim", "inject", "install", "efi"} => esp["boot.sdi"] # NoFile
        /\ pc \in {"copy boot.wim", "inject", "install", "efi"} => Processed

IInv == TypeOK /\ Matching /\ Vouched /\ HashNamesBootWim /\ CopiedIsBootable

LEMMA FileNames ==
    /\ "boot.wim" \in DataFiles /\ "install" \in DataFiles /\ "boot.sdi" \in DataFiles
    /\ "content" \in DataFiles
    /\ "boot.wim" \in EspFiles /\ "boot.sdi" \in EspFiles /\ "boot file" \in EspFiles
BY DEF DataFiles, EspFiles

LEMMA FreshTypes ==
    ASSUME NEW i \in Isos \cup {System}
    PROVE  /\ Fresh(i) \in File /\ Broken(i) \in File
           /\ Fresh(i) # NoFile /\ Broken(i) # NoFile
           /\ Fresh(i).iso = i /\ Broken(i).iso = i
<1>1. i # None
  BY ConstantsAssumption DEF System, None
<1>2. Fresh(i) \in File /\ Broken(i) \in File
  BY DEF Fresh, Broken, File
<1>3. Fresh(i).iso = i /\ Broken(i).iso = i /\ NoFile.iso = None
  BY DEF Fresh, Broken, NoFile
<1> QED BY <1>1, <1>2, <1>3

LEMMA RecordTypes ==
    ASSUME NEW r \in Record
    PROVE  r # NoHash /\ r.iso \in Isos
BY ConstantsAssumption DEF Record, NoHash

LEMMA InitIInv == Init => IInv
<1> SUFFICES ASSUME Init PROVE IInv
  OBVIOUS
<1>1. BootWim = NoFile /\ esp["boot file"] = NoFile
  BY FileNames DEF Init, Empty, BootWim
<1>2. TypeOK
  BY DEF Init, TypeOK, Empty
<1> QED BY <1>1, <1>2 DEF IInv, Init, Matching, Vouched, HashNamesBootWim, CopiedIsBootable, Resting

\* ISOBOOT is made anew, or only formatted, and no copy follows.
LEMMA EmptiedIInv ==
    ASSUME IInv, Recreate \/ FormatAndFail
    PROVE  IInv'
<1>1. BootWim' = NoFile /\ hash' = NoHash /\ pc' = "idle"
  BY FileNames DEF Recreate, FormatAndFail, Fail, Empty, BootWim
<1>2. TypeOK'
  BY DEF IInv, Recreate, FormatAndFail, Fail, TypeOK, Empty
<1> QED BY <1>1, <1>2 DEF IInv, Matching, Vouched, HashNamesBootWim, CopiedIsBootable, Resting

LEMMA StartCopyIInv ==
    ASSUME IInv, StartCopy
    PROVE  IInv'
<1>1. PICK r \in Record :
        /\ IF KeepsData(r) THEN UNCHANGED <<data, hash>>
           ELSE data' = Empty(DataFiles) /\ hash' = NoHash
        /\ job' = r /\ skip' \in BOOLEAN
  BY DEF StartCopy
<1>2. pc' \in {"content", "idle"} /\ bootOk' = TRUE /\ esp' = esp
  BY DEF StartCopy, Fail
<1>3. TypeOK'
  <2>1. data' \in [DataFiles -> File \cup {NoFile}] /\ hash' \in Record \cup {NoHash}
    BY <1>1 DEF IInv, TypeOK, Empty
  <2> QED BY <1>1, <1>2, <2>1 DEF IInv, TypeOK
<1>4. Matching' /\ HashNamesBootWim'
  <2>1. CASE KeepsData(r)
    <3>1. UNCHANGED <<data, hash>> /\ hash # NoHash /\ hash.iso = job'.iso
      BY <1>1, <2>1 DEF KeepsData
    <3> QED BY <3>1 DEF IInv, Matching, HashNamesBootWim, BootWim
  <2>2. CASE ~KeepsData(r)
    <3>1. hash' = NoHash /\ BootWim' = NoFile
      BY <1>1, <2>2, FileNames DEF Empty, BootWim
    <3> QED BY <3>1 DEF Matching, HashNamesBootWim
  <2> QED BY <2>1, <2>2
<1> QED BY <1>2, <1>3, <1>4 DEF IInv, Vouched, CopiedIsBootable

\* A step that only lets boot.wim change to another of the same image, and that neither
\* touches the record nor reports success, keeps what the record says.
LEMMA SameImageMatching ==
    ASSUME IInv, ~Resting, hash' = hash, job' = job,
           BootWim' # NoFile => BootWim'.iso = job.iso,
           BootWim # NoFile => BootWim' # NoFile
    PROVE  Matching' /\ HashNamesBootWim'
BY DEF IInv, Matching, HashNamesBootWim, BootWim

LEMMA ExtractContentIInv ==
    ASSUME IInv, ExtractContent
    PROVE  IInv'
<1>1. /\ pc = "content" /\ pc' \in {"boot files", "idle"}
      /\ UNCHANGED <<esp, hash, job, skip, bootOk>>
  BY DEF IInv, ExtractContent, Fail, TypeOK
<1>2. job.iso \in Isos
  BY RecordTypes DEF IInv, TypeOK
<1>3. \A broken, skipped :
        LET d == Extracted(job.iso, broken, skipped) IN
        /\ d \in [DataFiles -> File \cup {NoFile}]
        /\ d["boot.wim"] \in {Fresh(job.iso), Broken(job.iso), BootWim}
  <2> TAKE broken, skipped
  <2>1. /\ Fresh(job.iso) \in File /\ Broken(job.iso) \in File
        /\ \A f \in DataFiles : data[f] \in File \cup {NoFile}
    BY <1>2, FreshTypes DEF IInv, TypeOK
  <2> QED BY <2>1, FileNames DEF Extracted, BootWim
<1>4. /\ data' \in [DataFiles -> File \cup {NoFile}]
      /\ data'["boot.wim"] \in {Fresh(job.iso), Broken(job.iso), BootWim}
  <2>1. CASE UNCHANGED data
    BY <2>1 DEF IInv, TypeOK, BootWim
  <2>2. CASE \E broken, skipped : data' = Extracted(job.iso, broken, skipped)
    BY <1>3, <2>2
  <2>3. CASE \E broken, skipped : data' = [Extracted(job.iso, broken, skipped) EXCEPT
                                              !["content"] = Fresh(job.iso)]
    <3>1. PICK broken, skipped : data' = [Extracted(job.iso, broken, skipped) EXCEPT
                                              !["content"] = Fresh(job.iso)]
      BY <2>3
    <3>2. Fresh(job.iso) \in File
      BY <1>2, FreshTypes
    <3> QED BY <1>3, <3>1, <3>2, FileNames
  <2> QED BY <2>1, <2>2, <2>3 DEF ExtractContent
<1>5. TypeOK'
  BY <1>1, <1>4 DEF IInv, TypeOK
<1>6. Matching' /\ HashNamesBootWim'
  <2>1. BootWim' # NoFile => BootWim'.iso = job.iso
    BY <1>1, <1>2, <1>4, FreshTypes DEF IInv, Matching, BootWim, Resting
  <2>2. BootWim # NoFile => BootWim' # NoFile
    BY <1>2, <1>4, FreshTypes DEF BootWim
  <2> QED BY <1>1, <2>1, <2>2, SameImageMatching DEF Resting
<1> QED BY <1>1, <1>5, <1>6 DEF IInv, Vouched, CopiedIsBootable

LEMMA BootFileResultTypes ==
    ASSUME IInv, pc = "boot files"
    PROVE  /\ \A r \in BootWimResults : /\ r.file \in File \cup {NoFile} /\ r.ok \in BOOLEAN
                                        /\ r.file # NoFile => r.file.iso = job.iso
                                        /\ BootWim # NoFile => r.file # NoFile
           /\ \A r \in SdiResults : r.file \in File \cup {NoFile} /\ r.ok \in BOOLEAN
<1>1. /\ job.iso \in Isos /\ System \in Isos \cup {System}
      /\ BootWim \in File \cup {NoFile} /\ data["boot.sdi"] \in File \cup {NoFile}
      /\ BootWim # NoFile => BootWim.iso = job.iso
  BY FileNames, RecordTypes DEF IInv, TypeOK, Matching, BootWim, Resting
<1>2. \A f : Done(f).file = f /\ Failed(f).file = f /\ Done(f).ok \in BOOLEAN /\ Failed(f).ok \in BOOLEAN
  BY DEF Done, Failed
<1>3. \A r \in ExtractResults(job.iso) :
        r.file \in {Fresh(job.iso), Broken(job.iso), NoFile} /\ r.ok \in BOOLEAN
  <2>1. \A r \in ExtractResults(job.iso) :
          r \in {Done(Fresh(job.iso)), Done(Broken(job.iso)), Done(NoFile),
                 Failed(Broken(job.iso)), Failed(NoFile)}
    BY DEF ExtractResults
  <2> QED BY <1>2, <2>1
<1>4. /\ Fresh(job.iso) \in File /\ Broken(job.iso) \in File /\ Fresh(System) \in File
      /\ Fresh(job.iso).iso = job.iso /\ Broken(job.iso).iso = job.iso
  BY <1>1, FreshTypes
<1>5. ASSUME NEW r \in BootWimResults
      PROVE  /\ r.file \in File \cup {NoFile} /\ r.ok \in BOOLEAN
             /\ r.file # NoFile => r.file.iso = job.iso
             /\ BootWim # NoFile => r.file # NoFile
  <2>1. CASE r = Done(BootWim)
    BY <1>1, <1>2, <2>1
  <2>2. CASE BootWim = NoFile /\ r \in ExtractResults(job.iso)
    BY <1>3, <1>4, <2>2
  <2>3. CASE BootWim = NoFile /\ r = Failed(NoFile)
    BY <1>2, <2>3
  <2> QED BY <1>5, <2>1, <2>2, <2>3 DEF BootWimResults, BootWim
<1>6. ASSUME NEW r \in SdiResults
      PROVE  r.file \in File \cup {NoFile} /\ r.ok \in BOOLEAN
  <2>1. CASE r \in ExtractResults(job.iso)
    BY <1>3, <1>4, <2>1
  <2>2. CASE r \in {Done(data["boot.sdi"]), Done(Fresh(System)), Failed(NoFile)}
    BY <1>1, <1>2, <1>4, <2>2
  <2> QED BY <1>6, <2>1, <2>2 DEF SdiResults
<1> QED BY <1>5, <1>6

LEMMA CopyResultTypes ==
    ASSUME NEW file \in File \cup {NoFile}, NEW old \in File \cup {NoFile},
           NEW r \in CopyResults(file, old)
    PROVE  r.file \in File \cup {NoFile} /\ r.ok \in BOOLEAN /\ (r.ok => r.file # NoFile)
BY DEF CopyResults

LEMMA ExtractBootFilesIInv ==
    ASSUME IInv, ExtractBootFiles
    PROVE  IInv'
<1>1. PICK wim \in BootWimResults, sdi \in SdiResults :
      \E copy \in CopyResults(sdi.file, esp["boot.sdi"]) :
        /\ data' = [data EXCEPT !["boot.wim"] = wim.file, !["boot.sdi"] = sdi.file]
        /\ esp' = [esp EXCEPT !["boot.sdi"] = IF sdi.ok THEN copy.file ELSE @]
        /\ bootOk' = (wim.ok /\ sdi.ok /\ copy.ok)
  BY DEF ExtractBootFiles, BootFilesThen
<1>2. PICK copy \in CopyResults(sdi.file, esp["boot.sdi"]) :
        /\ data' = [data EXCEPT !["boot.wim"] = wim.file, !["boot.sdi"] = sdi.file]
        /\ esp' = [esp EXCEPT !["boot.sdi"] = IF sdi.ok THEN copy.file ELSE @]
        /\ bootOk' = (wim.ok /\ sdi.ok /\ copy.ok)
  BY <1>1
<1>3. /\ pc = "boot files" /\ UNCHANGED <<hash, job, skip>>
      /\ pc' = IF bootOk' THEN "mount" ELSE "install"
  BY DEF ExtractBootFiles, BootFilesThen
<1>4. /\ wim.file \in File \cup {NoFile} /\ sdi.file \in File \cup {NoFile}
      /\ wim.file # NoFile => wim.file.iso = job.iso
      /\ BootWim # NoFile => wim.file # NoFile
      /\ wim.ok \in BOOLEAN /\ sdi.ok \in BOOLEAN
  BY <1>3, BootFileResultTypes
<1>5. copy.file \in File \cup {NoFile} /\ copy.ok \in BOOLEAN /\ (copy.ok => copy.file # NoFile)
  <2>1. esp["boot.sdi"] \in File \cup {NoFile}
    BY FileNames DEF IInv, TypeOK
  <2> QED BY <1>4, <2>1, CopyResultTypes
<1>6. data' \in [DataFiles -> File \cup {NoFile}] /\ BootWim' = wim.file
  BY <1>2, <1>4, FileNames DEF IInv, TypeOK, BootWim
<1>7. /\ esp' \in [EspFiles -> File \cup {NoFile}]
      /\ bootOk' => esp'["boot.sdi"] # NoFile
  BY <1>2, <1>5, FileNames DEF IInv, TypeOK
<1>8. bootOk' \in BOOLEAN
  BY <1>2
<1>9. TypeOK'
  BY <1>3, <1>6, <1>7, <1>8 DEF IInv, TypeOK
<1>10. Matching' /\ HashNamesBootWim'
  BY <1>3, <1>4, <1>6, SameImageMatching DEF Resting
<1>11. Vouched' /\ CopiedIsBootable'
  BY <1>3, <1>7 DEF Vouched, CopiedIsBootable
<1> QED BY <1>9, <1>10, <1>11 DEF IInv

LEMMA NoBootFilesIInv ==
    ASSUME IInv, NoBootFiles
    PROVE  IInv'
<1>1. TypeOK'
  BY DEF IInv, TypeOK, NoBootFiles
<1>2. Matching' /\ HashNamesBootWim'
  BY DEF IInv, NoBootFiles, Matching, HashNamesBootWim, Resting, BootWim
<1>3. Vouched' /\ CopiedIsBootable'
  BY DEF NoBootFiles, Vouched, CopiedIsBootable
<1> QED BY <1>1, <1>2, <1>3 DEF IInv

LEMMA MountAndProcessWimIInv ==
    ASSUME IInv, MountAndProcessWim
    PROVE  IInv'
<1>1. pc = "mount" /\ UNCHANGED <<esp, hash, job, skip>>
  BY DEF MountAndProcessWim
<1>2. CASE /\ pc' = "copy boot.wim" /\ UNCHANGED bootOk
           /\ BootWim # NoFile /\ BootWim.whole
           /\ \E done \in SUBSET Integrations :
                data' = [data EXCEPT !["boot.wim"].with = @ \cup {"start"} \cup done]
  <2>1. PICK done \in SUBSET Integrations :
          data' = [data EXCEPT !["boot.wim"].with = @ \cup {"start"} \cup done]
    BY <1>2
  <2>2. BootWim \in File /\ BootWim.iso = job.iso
    BY <1>1, <1>2, FileNames DEF IInv, TypeOK, Matching, Resting, BootWim
  <2>3. BootWim' = [BootWim EXCEPT !.with = @ \cup {"start"} \cup done]
    BY <2>1, FileNames DEF IInv, TypeOK, BootWim
  <2>4. /\ BootWim' \in File
        /\ BootWim'.iso = job.iso /\ BootWim'.whole /\ "start" \in BootWim'.with
    BY <1>2, <2>2, <2>3 DEF File, Integrations, Work
  <2>5. BootWim' # NoFile
    BY <1>1, <2>4, RecordTypes, ConstantsAssumption DEF IInv, TypeOK, NoFile
  <2>6. data' \in [DataFiles -> File \cup {NoFile}]
    BY <2>1, <2>3, <2>4, FileNames DEF IInv, TypeOK, BootWim
  <2>7. TypeOK'
    BY <1>1, <1>2, <2>6 DEF IInv, TypeOK
  <2>8. Matching' /\ HashNamesBootWim'
    BY <1>1, <2>4, <2>5, SameImageMatching DEF Resting
  <2>9. Vouched' /\ CopiedIsBootable'
    BY <1>1, <1>2, <2>4, <2>5 DEF IInv, Vouched, Processed, CopiedIsBootable
  <2> QED BY <2>7, <2>8, <2>9 DEF IInv
<1>3. CASE bootOk' = FALSE /\ pc' = "install" /\ UNCHANGED data
  <2>1. TypeOK'
    BY <1>1, <1>3 DEF IInv, TypeOK
  <2>2. Matching' /\ HashNamesBootWim'
    BY <1>1, <1>3 DEF IInv, Matching, HashNamesBootWim, Resting, BootWim
  <2> QED BY <1>3, <2>1, <2>2 DEF IInv, Vouched, CopiedIsBootable
<1> QED BY <1>2, <1>3 DEF MountAndProcessWim, Mountable, BootWim

\* A step that leaves boot.wim, the record and boot.sdi on ISOEFI alone, and neither
\* starts a run nor ends one with success.
LEMMA BootFilesKept ==
    ASSUME IInv, ~Resting, BootWim' = BootWim, esp'["boot.sdi"] = esp["boot.sdi"],
           UNCHANGED <<hash, job, skip, bootOk>>,
           pc \in {"copy boot.wim", "inject", "install"}, pc' \in {"inject", "install", "efi"}
    PROVE  Matching' /\ Vouched' /\ HashNamesBootWim' /\ CopiedIsBootable'
<1>1. Matching' /\ HashNamesBootWim'
  BY DEF IInv, Matching, HashNamesBootWim, Resting, BootWim
<1>2. Vouched'
  BY DEF IInv, Vouched, Processed
<1> QED BY <1>1, <1>2 DEF CopiedIsBootable

LEMMA CopyBootWimToEspIInv ==
    ASSUME IInv, CopyBootWimToEsp
    PROVE  IInv'
<1>1. pc = "copy boot.wim" /\ pc' = "inject" /\ UNCHANGED <<data, hash, job, skip, bootOk>>
  BY DEF CopyBootWimToEsp
<1>2. PICK copy \in CopyResults(data["boot.wim"], esp["boot.wim"]) :
        esp' = IF data["install"] = NoFile THEN esp ELSE [esp EXCEPT !["boot.wim"] = copy.file]
  BY DEF CopyBootWimToEsp
<1>3. copy.file \in File \cup {NoFile}
  BY <1>2, FileNames, CopyResultTypes DEF IInv, TypeOK
<1>4. esp' \in [EspFiles -> File \cup {NoFile}] /\ esp'["boot.sdi"] = esp["boot.sdi"]
  BY <1>2, <1>3, FileNames DEF IInv, TypeOK
<1>5. TypeOK'
  BY <1>1, <1>4 DEF IInv, TypeOK
<1> QED BY <1>1, <1>4, <1>5, BootFilesKept DEF IInv, BootWim, Resting

LEMMA ProcessInstallWimIInv ==
    ASSUME IInv, ProcessInstallWim
    PROVE  IInv'
<1>1. pc = "inject" /\ pc' = "install" /\ UNCHANGED <<esp, hash, job, skip, bootOk>>
  BY DEF ProcessInstallWim
<1>2. data' \in [DataFiles -> File \cup {NoFile}] /\ BootWim' = BootWim
  <2>1. CASE /\ data["install"] # NoFile
             /\ data' = [data EXCEPT !["install"] = WithDrivers(@)]
    <3>1. data["install"] \in File
      BY <2>1, FileNames DEF IInv, TypeOK
    <3>2. WithDrivers(data["install"]) \in File
      BY <3>1 DEF File, Work, WithDrivers
    <3> QED BY <2>1, <3>2, FileNames DEF IInv, TypeOK, BootWim
  <2>2. CASE UNCHANGED data
    BY <2>2 DEF IInv, TypeOK, BootWim
  <2> QED BY <2>1, <2>2 DEF ProcessInstallWim, Mountable
<1>3. TypeOK'
  BY <1>1, <1>2 DEF IInv, TypeOK
<1> QED BY <1>1, <1>2, <1>3, BootFilesKept DEF IInv, Resting

LEMMA CopyInstallIInv ==
    ASSUME IInv, CopyInstall
    PROVE  IInv'
<1>1. pc = "install" /\ pc' = "efi" /\ UNCHANGED <<esp, hash, job, skip, bootOk>>
  BY DEF CopyInstall
<1>2. PICK f \in InstallResults : data' = [data EXCEPT !["install"] = f]
  BY DEF CopyInstall
<1>3. f \in File \cup {NoFile}
  <2>1. /\ Fresh(job.iso) \in File /\ Broken(job.iso) \in File
        /\ data["install"] \in File \cup {NoFile}
    BY FileNames, RecordTypes, FreshTypes DEF IInv, TypeOK
  <2> QED BY <1>2, <2>1 DEF InstallResults
<1>4. data' \in [DataFiles -> File \cup {NoFile}] /\ BootWim' = BootWim
  BY <1>2, <1>3, FileNames DEF IInv, TypeOK, BootWim
<1>5. TypeOK'
  BY <1>1, <1>4 DEF IInv, TypeOK
<1> QED BY <1>1, <1>4, <1>5, BootFilesKept DEF IInv, Resting

\* A run that ends without success leaves what the record says of boot.wim.
LEMMA FailedRun ==
    ASSUME IInv, TypeOK', pc' = "idle", UNCHANGED <<data, hash>>
    PROVE  IInv'
BY DEF IInv, Matching, Vouched, HashNamesBootWim, CopiedIsBootable, Resting, BootWim

\* What extracting and validating the EFI folder can make of the boot file.
LEMMA EfiFileTypes ==
    ASSUME IInv
    PROVE  BootFileResults \subseteq File \cup {NoFile}
<1>1. /\ job.iso \in Isos /\ esp["boot file"] \in File \cup {NoFile}
      /\ Fresh(job.iso) \in File /\ Broken(job.iso) \in File /\ Fresh(System) \in File
  BY FileNames, RecordTypes, FreshTypes DEF IInv, TypeOK
<1>2. EfiFolderResults \subseteq File \cup {NoFile}
  BY <1>1 DEF EfiFolderResults
<1>3. \A f \in File \cup {NoFile} : ValidatedAs(f) \subseteq File \cup {NoFile}
  BY <1>1 DEF ValidatedAs
<1> QED BY <1>2, <1>3 DEF BootFileResults

LEMMA ExtractEfiIInv ==
    ASSUME IInv, ExtractEfi
    PROVE  IInv'
<1>1. pc = "efi" /\ UNCHANGED <<data, job, skip, bootOk>>
  BY DEF ExtractEfi
<1>2. /\ job \in Record /\ job.iso \in Isos
      /\ esp["boot file"] \in File \cup {NoFile}
      /\ Fresh(job.iso) \in File /\ Broken(job.iso) \in File /\ Fresh(System) \in File
  BY FileNames, RecordTypes, FreshTypes DEF IInv, TypeOK
<1>3. ASSUME NEW file \in BootFileResults, esp' = [esp EXCEPT !["boot file"] = file],
             OverallSuccess(file), pc' = "copied",
             hash' \in {job} \cup {h \in {hash, NoHash} : Silent}
      PROVE  IInv'
  <2>1. file \in File \cup {NoFile}
    BY <1>3, EfiFileTypes
  <2>2. /\ esp' \in [EspFiles -> File \cup {NoFile}]
        /\ esp'["boot file"] = file /\ esp'["boot.sdi"] = esp["boot.sdi"]
    BY <1>3, <2>1, FileNames DEF IInv, TypeOK
  <2>3. hash' \in {job, hash, NoHash} /\ hash' \in Record \cup {NoHash}
    BY <1>2, <1>3 DEF IInv, TypeOK
  <2>4. TypeOK'
    BY <1>1, <1>3, <2>2, <2>3 DEF IInv, TypeOK
  <2>5. bootOk /\ file # NoFile
    BY <1>3 DEF OverallSuccess, BootFileExists
  <2>6. Detected(job.iso) => Processed /\ esp["boot.sdi"] # NoFile
    BY <1>1, <2>5 DEF IInv, Vouched
  <2>7. hash' # NoHash => hash'.iso = job.iso
    BY <1>1, <2>3 DEF IInv, Matching, Resting
  <2>8. BootWim # NoFile => BootWim.iso = job.iso
    BY <1>1 DEF IInv, Matching, Resting
  <2>9. Matching'
    BY <1>1, <1>3, <2>7, <2>8 DEF Matching, Resting, BootWim
  <2>10. HashNamesBootWim'
    BY <1>1, <2>6, <2>7 DEF HashNamesBootWim, Processed, BootWim
  <2>11. CopiedIsBootable'
    BY <1>1, <2>2, <2>5, <2>6 DEF CopiedIsBootable, Processed, BootWim
  <2> QED BY <1>3, <2>4, <2>9, <2>10, <2>11 DEF IInv, Vouched
<1>4. ASSUME NEW file \in File \cup {NoFile}, esp' = [esp EXCEPT !["boot file"] = file],
             Fail, UNCHANGED hash
      PROVE  IInv'
  <2>1. TypeOK'
    BY <1>1, <1>4, FileNames DEF IInv, TypeOK, Fail
  <2> QED BY <1>1, <1>4, <2>1, FailedRun DEF Fail
<1>5. CASE \E file \in BootFileResults :
             /\ esp' = [esp EXCEPT !["boot file"] = file]
             /\ \/ /\ OverallSuccess(file)
                   /\ hash' \in {job} \cup {h \in {hash, NoHash} : Silent}
                   /\ pc' = "copied"
                \/ /\ ~OverallSuccess(file)
                   /\ Fail /\ UNCHANGED hash
  <2> QED BY <1>3, <1>4, <1>5, EfiFileTypes
<1>6. CASE /\ \E file \in {esp["boot file"], Fresh(job.iso), Broken(job.iso)} :
                esp' = [esp EXCEPT !["boot file"] = file]
           /\ Fail /\ UNCHANGED hash
  BY <1>2, <1>4, <1>6
<1> QED BY <1>5, <1>6 DEF ExtractEfi

LEMMA CrashIInv ==
    ASSUME IInv, Crash
    PROVE  IInv'
<1>1. TypeOK'
  BY DEF IInv, TypeOK, Crash, Fail
<1> QED BY <1>1, FailedRun DEF Crash, Fail

LEMMA NextIInv ==
    ASSUME IInv, [Next]_vars
    PROVE  IInv'
<1>1. CASE Next
  BY <1>1, EmptiedIInv, StartCopyIInv, ExtractContentIInv, ExtractBootFilesIInv, NoBootFilesIInv,
     MountAndProcessWimIInv, CopyBootWimToEspIInv, ProcessInstallWimIInv, CopyInstallIInv,
     ExtractEfiIInv, CrashIInv DEF Next
<1>2. CASE UNCHANGED vars
  <2>1. TypeOK'
    BY <1>2 DEF IInv, TypeOK, vars
  <2>2. Matching' /\ Vouched'
    BY <1>2 DEF IInv, Matching, Vouched, Processed, Resting, BootWim, vars
  <2>3. HashNamesBootWim' /\ CopiedIsBootable'
    BY <1>2 DEF IInv, HashNamesBootWim, CopiedIsBootable, vars
  <2> QED BY <2>1, <2>2, <2>3 DEF IInv
<1> QED BY <1>1, <1>2

LEMMA IInvHolds == Spec => []IInv
<1>1. IInv /\ [Next]_vars => IInv'
  BY NextIInv
<1> QED BY InitIInv, <1>1, PTL DEF Spec

\* The files, the record and the run are always what TypeOK says they are.
THEOREM CopyTypes == Spec => []TypeOK
<1>1. IInv => TypeOK
  BY DEF IInv
<1> QED BY <1>1, IInvHolds, PTL

\* Whatever fails and whenever the program is killed, as long as ISOBOOTHASH names a
\* Windows image the boot.wim on ISOBOOT is there and is that image's: validateAndPrepare
\* formats the partition before anything of another image gets on it.
THEOREM BootWimMatchesHash == Spec => []HashNamesBootWim
<1>1. IInv => HashNamesBootWim
  BY DEF IInv
<1> QED BY <1>1, IInvHolds, PTL

\* A copy that returns true leaves an EFI boot file and, for a Windows image, a whole
\* boot.wim of that image with its start files, and boot.sdi on ISOEFI: the flags that
\* make up overallSuccess lose no failure of the steps before them.
THEOREM SuccessIsBootable == Spec => []CopiedIsBootable
<1>1. IInv => CopiedIsBootable
  BY DEF IInv
<1> QED BY <1>1, IInvHolds, PTL

-----------------------------------------------------------------------------
(***************************************************************************)
(* The record describes what is on ISOBOOT, if nothing fails in silence.   *)
(* What validateAndPrepare takes for the recorded format is the mode, so   *)
(* every run begins with an empty ISOBOOT; from there the files are        *)
(* followed step by step to where the record is saved.                     *)
(***************************************************************************)
Copying == {"boot files", "mount", "copy boot.wim", "inject", "install", "efi"}

\* What a finished run for r has in "content".
ContentFor(r) ==
    data["content"] = IF r.mode = "EXTRACT" \/ ~Detected(r.iso) THEN Fresh(r.iso) ELSE NoFile

\* What a finished run for r has put into boot.wim.
WorkFor(r) ==
    /\ "start" \in BootWim.with
    /\ "Programs" \in BootWim.with <=> r.mode = "RAM" /\ r.iso \in WithPrograms
    /\ "drivers" \in BootWim.with <=> r.drivers

\* How far the files are at each step of a run.
Staged ==
    /\ ~Resting => hash = NoHash /\ skip = FALSE
    /\ pc = "content" => data["content"] = NoFile /\ BootWim = NoFile
    /\ pc \in Copying => ContentFor(job)
    /\ pc \in {"boot files", "mount"} => BootWim.with = {}
    /\ pc \in {"copy boot.wim", "inject", "install", "efi"} /\ bootOk /\ Detected(job.iso) =>
          WorkFor(job)
    /\ pc = "copied" => hash = job

RInv == IInv /\ Staged /\ HashTruthful

\* Without a record there is nothing to show of it, ...
LEMMA NoRecord ==
    ASSUME IInv', Staged', hash' = NoHash
    PROVE  RInv'
BY DEF RInv, HashTruthful

\* ... and a run in progress has none.
LEMMA NoRecordYet ==
    ASSUME RInv, ~Resting
    PROVE  hash = NoHash /\ skip = FALSE
BY DEF RInv, Staged

LEMMA InitRInv == Init => RInv
<1> SUFFICES ASSUME Init PROVE RInv
  OBVIOUS
<1> QED BY InitIInv DEF Init, RInv, Staged, HashTruthful, Resting, Copying

\* No recorded mode is a format, so nothing is ever kept.
LEMMA NothingKept ==
    ASSUME TypeOK, NEW r \in Record
    PROVE  ~KeepsData(r)
BY ConstantsAssumption DEF TypeOK, KeepsData, Record, NoHash, None

LEMMA StartCopyRInv ==
    ASSUME RInv, IInv', StartCopy
    PROVE  RInv'
<1>1. PICK r \in Record, updated \in BOOLEAN :
        /\ IF KeepsData(r) THEN UNCHANGED <<data, hash>>
           ELSE data' = Empty(DataFiles) /\ hash' = NoHash
        /\ job' = r /\ skip' = (ShouldSkipCopy(r) /\ ~updated)
  BY DEF StartCopy
<1>2. data' = Empty(DataFiles) /\ hash' = NoHash
  BY <1>1, NothingKept DEF RInv, IInv
<1>3. skip' = FALSE
  BY <1>1, <1>2, RecordTypes DEF ShouldSkipCopy
<1>4. data'["content"] = NoFile /\ BootWim' = NoFile
  BY <1>2, FileNames DEF Empty, BootWim
<1>5. pc' \in {"content", "idle"}
  BY DEF StartCopy, Fail
<1> QED BY <1>2, <1>3, <1>4, <1>5, NoRecord DEF Staged, Copying

LEMMA ExtractContentRInv ==
    ASSUME ~Silent, RInv, IInv', ExtractContent
    PROVE  RInv'
<1>1. pc = "content" /\ UNCHANGED <<hash, job, skip, bootOk>>
  BY DEF ExtractContent
<1>2. hash' = NoHash /\ skip' = FALSE
  BY <1>1, NoRecordYet DEF Resting
<1>3. /\ data["content"] = NoFile /\ BootWim = NoFile
      /\ Fresh(job.iso).with = {} /\ NoFile.with = {}
  BY <1>1 DEF RInv, Staged, Fresh, NoFile
<1>4. CASE pc' = "idle"
  BY <1>1, <1>2, <1>4, NoRecord DEF Staged, Resting, Copying
<1>5. CASE /\ ExtractsContent /\ pc' = "boot files"
           /\ data' = Extracted(job.iso, {}, {})
  <2>1. data'["content"] = Fresh(job.iso)
    BY <1>5, FileNames DEF Extracted, Contents
  <2>2. BootWim' \in {Fresh(job.iso), NoFile}
    BY <1>3, <1>5, FileNames DEF Extracted, BootWim
  <2>3. ContentFor(job)'
    BY <1>1, <1>5, <2>1 DEF ContentFor, ExtractsContent
  <2>4. BootWim'.with = {}
    BY <1>3, <2>2
  <2> QED BY <1>2, <1>5, <2>3, <2>4, NoRecord DEF Staged, Copying
<1>6. CASE /\ ExtractsContent /\ pc' = "boot files"
           /\ ~Windows(job.iso)
           /\ \E broken, skipped \in SUBSET Contents(job.iso) :
                data' = [Extracted(job.iso, broken, skipped) EXCEPT !["content"] = Fresh(job.iso)]
  <2>1. PICK broken, skipped \in SUBSET Contents(job.iso) :
          data' = [Extracted(job.iso, broken, skipped) EXCEPT !["content"] = Fresh(job.iso)]
    BY <1>6
  <2>2. Extracted(job.iso, broken, skipped)["boot.wim"] = BootWim
    <3>1. "boot.wim" \notin Contents(job.iso)
      BY <1>6, ConstantsAssumption DEF Contents, Windows
    <3> QED BY <3>1, FileNames DEF Extracted, BootWim
  <2>3. data'["content"] = Fresh(job.iso) /\ BootWim' = NoFile
    BY <1>3, <2>1, <2>2, FileNames DEF Extracted, BootWim
  <2>4. ContentFor(job)'
    BY <1>1, <1>6, <2>3 DEF ContentFor, ExtractsContent
  <2> QED BY <1>2, <1>3, <1>6, <2>3, <2>4, NoRecord DEF Staged, Copying
<1>7. CASE /\ ~ExtractsContent /\ pc' = "boot files" /\ UNCHANGED data
  <2>1. ContentFor(job)'
    BY <1>1, <1>3, <1>7 DEF ContentFor, ExtractsContent
  <2>2. BootWim'.with = {}
    BY <1>3, <1>7 DEF BootWim
  <2> QED BY <1>2, <1>7, <2>1, <2>2, NoRecord DEF Staged, Copying
<1>8. skip = FALSE
  BY <1>1, NoRecordYet DEF Resting
<1>9. \A broken, skipped : broken \cup skipped = {} => broken = {} /\ skipped = {}
  OBVIOUS
<1> QED BY <1>4, <1>5, <1>6, <1>7, <1>8, <1>9 DEF ExtractContent, Fail

LEMMA ExtractBootFilesRInv ==
    ASSUME ~Silent, RInv, IInv', ExtractBootFiles
    PROVE  RInv'
<1>1. /\ pc = "boot files" /\ pc' \in {"mount", "install"}
      /\ pc' = "install" => ~bootOk'
      /\ UNCHANGED <<hash, job, skip>>
  BY DEF ExtractBootFiles, BootFilesThen
<1>2. hash' = NoHash /\ skip' = FALSE
  BY <1>1, NoRecordYet DEF Resting
<1>3. PICK wim \in BootWimResults, sdi \in SdiResults :
        data' = [data EXCEPT !["boot.wim"] = wim.file, !["boot.sdi"] = sdi.file]
  BY DEF ExtractBootFiles, BootFilesThen
<1>4. data'["content"] = data["content"] /\ BootWim' = wim.file
  BY <1>3, FileNames DEF RInv, IInv, TypeOK, BootWim
<1>5. ContentFor(job)'
  BY <1>1, <1>4 DEF RInv, Staged, Copying, ContentFor
<1>6. wim.file.with = {}
  <2>1. /\ BootWim.with = {} /\ Fresh(job.iso).with = {}
        /\ Broken(job.iso).with = {} /\ NoFile.with = {}
    BY <1>1 DEF RInv, Staged, Fresh, Broken, NoFile
  <2>2. \A f : Done(f).file = f /\ Failed(f).file = f
    BY DEF Done, Failed
  <2>3. wim \in {Done(BootWim), Done(Fresh(job.iso)), Done(Broken(job.iso)), Done(NoFile),
                 Failed(Broken(job.iso)), Failed(NoFile)}
    BY DEF BootWimResults, ExtractResults, BootWim
  <2> QED BY <2>1, <2>2, <2>3
<1> QED BY <1>1, <1>2, <1>4, <1>5, <1>6, NoRecord DEF Staged, Copying

LEMMA NoBootFilesRInv ==
    ASSUME RInv, IInv', NoBootFiles
    PROVE  RInv'
<1>1. pc = "boot files" /\ pc' = "efi" /\ ~Detected(job.iso) /\ UNCHANGED <<data, hash, job, skip>>
  BY DEF NoBootFiles
<1>2. hash' = NoHash /\ skip' = FALSE
  BY <1>1, NoRecordYet DEF Resting
<1>3. ContentFor(job)'
  BY <1>1 DEF RInv, Staged, Copying, ContentFor
<1> QED BY <1>1, <1>2, <1>3, NoRecord DEF Staged, Copying

LEMMA MountAndProcessWimRInv ==
    ASSUME ~Silent, RInv, IInv', MountAndProcessWim
    PROVE  RInv'
<1>1. pc = "mount" /\ UNCHANGED <<hash, job, skip>>
  BY DEF MountAndProcessWim
<1>2. hash' = NoHash /\ skip' = FALSE /\ skip = FALSE
  BY <1>1, NoRecordYet DEF Resting
<1>3. CASE /\ pc' = "copy boot.wim" /\ BootWim # NoFile
           /\ data' = [data EXCEPT !["boot.wim"].with = @ \cup {"start"} \cup Integrations]
  <2>1. data'["content"] = data["content"]
    BY <1>3, FileNames DEF RInv, IInv, TypeOK
  <2>2. ContentFor(job)'
    BY <1>1, <2>1 DEF RInv, Staged, Copying, ContentFor
  <2>3. BootWim' = [BootWim EXCEPT !.with = @ \cup {"start"} \cup Integrations]
    BY <1>3, FileNames DEF RInv, IInv, TypeOK, BootWim
  <2>4. BootWim \in File
    BY <1>3, FileNames DEF RInv, IInv, TypeOK, BootWim
  <2>5. BootWim'.with = {"start"} \cup Integrations
    BY <1>1, <2>3, <2>4 DEF RInv, Staged, File
  <2>6. Detected(job.iso) => WorkFor(job)'
    <3> SUFFICES ASSUME Detected(job.iso) PROVE WorkFor(job)'
      OBVIOUS
    <3>1. IntegratesPrograms <=> job.mode = "RAM"
      BY <1>2, ConstantsAssumption DEF IntegratesPrograms, ExtractsContent, Detected, Windows
    <3>2. job.mode = "RAM" => (ProgramsFound <=> job.iso \in WithPrograms)
      <4> SUFFICES ASSUME job.mode = "RAM" PROVE data["content"].iso \notin WithPrograms
        BY DEF ProgramsFound
      <4>1. data["content"] = NoFile
        BY <1>1 DEF RInv, Staged, Copying, ContentFor, ExtractsContent
      <4> QED BY <4>1, ConstantsAssumption DEF NoFile
    <3>3. /\ "Programs" \in Integrations <=> (job.mode = "RAM" /\ job.iso \in WithPrograms)
          /\ "drivers" \in Integrations <=> job.drivers
      BY <3>1, <3>2 DEF Integrations, Work
    <3> QED BY <1>1, <2>5, <3>3 DEF WorkFor
  <2> QED BY <1>1, <1>2, <1>3, <2>2, <2>6, NoRecord DEF Staged, Copying
<1>4. CASE bootOk' = FALSE /\ pc' = "install" /\ UNCHANGED data
  <2>1. ContentFor(job)'
    BY <1>1, <1>4 DEF RInv, Staged, Copying, ContentFor
  <2> QED BY <1>2, <1>4, <2>1, NoRecord DEF Staged, Copying
<1> QED BY <1>3, <1>4 DEF MountAndProcessWim, Mountable, BootWim

\* A step that leaves boot.wim and the content alone.
LEMMA ContentKept ==
    ASSUME RInv, IInv', ~Resting, BootWim' = BootWim, data'["content"] = data["content"],
           UNCHANGED <<hash, job, skip, bootOk>>,
           pc \in {"copy boot.wim", "inject", "install"}, pc' \in {"inject", "install", "efi"}
    PROVE  RInv'
<1>1. hash' = NoHash /\ skip' = FALSE
  BY NoRecordYet
<1>2. ContentFor(job)' /\ (bootOk' /\ Detected(job.iso)' => WorkFor(job)')
  BY DEF RInv, Staged, Copying, ContentFor, WorkFor, Detected
<1> QED BY <1>1, <1>2, NoRecord DEF Staged, Copying

LEMMA ExtractEfiRInv ==
    ASSUME ~Silent, RInv, IInv', ExtractEfi
    PROVE  RInv'
<1>1. pc = "efi" /\ UNCHANGED <<data, job, skip, bootOk>>
  BY DEF ExtractEfi
<1>2. hash = NoHash
  BY <1>1, NoRecordYet DEF Resting
<1>3. CASE pc' = "copied" /\ hash' = job /\ bootOk
  <2>1. ContentFor(job)
    BY <1>1 DEF RInv, Staged, Copying
  <2>2. Detected(job.iso) => WorkFor(job) /\ BootWim.whole
    BY <1>1, <1>3 DEF RInv, IInv, Staged, Vouched, Processed
  <2>3. HashTruthful'
    BY <1>1, <1>3, <2>1, <2>2 DEF HashTruthful, ContentFor, WorkFor, BootWim
  <2>4. Staged'
    BY <1>1, <1>3 DEF Staged, Resting, Copying
  <2> QED BY <2>3, <2>4 DEF RInv
<1>4. CASE pc' = "idle" /\ hash' = hash
  BY <1>2, <1>4, NoRecord DEF Staged, Resting, Copying
<1> QED BY <1>3, <1>4 DEF ExtractEfi, Fail, OverallSuccess, BootFileExists

LEMMA NextRInv ==
    ASSUME ~Silent, RInv, [Next]_vars
    PROVE  RInv'
<1>1. IInv'
  BY NextIInv DEF RInv
<1>2. CASE Recreate \/ FormatAndFail
  <2>1. hash' = NoHash /\ pc' = "idle"
    BY <1>2 DEF Recreate, FormatAndFail, Fail
  <2> QED BY <1>1, <2>1, NoRecord DEF Staged, Resting, Copying
<1>3. CASE CopyBootWimToEsp
  BY <1>1, <1>3, ContentKept DEF CopyBootWimToEsp, Resting, BootWim
<1>4. CASE ProcessInstallWim
  <2>1. data'["boot.wim"] = data["boot.wim"] /\ data'["content"] = data["content"]
    BY <1>4, FileNames DEF ProcessInstallWim, RInv, IInv, TypeOK
  <2> QED BY <1>1, <1>4, <2>1, ContentKept DEF ProcessInstallWim, Resting, BootWim
<1>5. CASE CopyInstall
  <2>1. data'["boot.wim"] = data["boot.wim"] /\ data'["content"] = data["content"]
    BY <1>5, FileNames DEF CopyInstall, RInv, IInv, TypeOK
  <2> QED BY <1>1, <1>5, <2>1, ContentKept DEF CopyInstall, Resting, BootWim
<1>6. CASE Crash
  <2>1. hash' = NoHash /\ pc' = "idle"
    BY <1>6, NoRecordYet DEF Crash, Fail
  <2> QED BY <1>1, <2>1, NoRecord DEF Staged, Resting, Copying
<1>7. CASE UNCHANGED vars
  <2>1. Staged'
    BY <1>7 DEF RInv, Staged, Resting, ContentFor, WorkFor, BootWim, vars
  <2>2. HashTruthful'
    BY <1>7 DEF RInv, HashTruthful, vars
  <2> QED BY <1>1, <2>1, <2>2 DEF RInv
<1> QED BY <1>1, <1>2, <1>3, <1>4, <1>5, <1>6, <1>7, StartCopyRInv, ExtractContentRInv,
           ExtractBootFilesRInv, NoBootFilesRInv, MountAndProcessWimRInv, ExtractEfiRInv DEF Next

LEMMA AlwaysR == ASSUME ~Silent PROVE Spec => []RInv
<1>1. RInv /\ [Next]_vars => RInv'
  BY NextRInv
<1> QED BY InitRInv, <1>1, PTL DEF Spec

\* If nothing fails in silence, then whatever else fails, is killed or updated, ISOBOOTHASH
\* describes what is on ISOBOOT: all of the content or none, and in boot.wim what a run with
\* the recorded mode and drivers puts there (saveHashInfo, shouldSkipCopy).
THEOREM RecordIsTruthful ==
    ASSUME ~Silent
    PROVE  Spec => []HashTruthful
<1>1. RInv => HashTruthful
  BY DEF RInv
<1> QED BY AlwaysR, <1>1, PTL
-----------------------------------------------------------------------------
(***************************************************************************)
(* boot.wim on ISOEFI.  It is copied there only in a run that has seen an  *)
(* install image on ISOBOOT; as a run begins with an empty ISOBOOT, that   *)
(* install image is the run's own, and so is the boot.wim it has processed.*)
(***************************************************************************)
OwnInstall == ~Resting /\ data["install"] # NoFile => job.iso \in WithInstall

\* What leads to the copy is a boot.wim that every step before has vouched for.
MountsVouched == pc \in {"mount", "copy boot.wim"} => bootOk /\ Detected(job.iso)

EInv == IInv /\ EspWimIsProcessed /\ OwnInstall /\ MountsVouched

LEMMA InitEInv == Init => EInv
<1> SUFFICES ASSUME Init PROVE EInv
  OBVIOUS
<1>1. esp["boot.wim"] = NoFile
  BY FileNames DEF Init, Empty
<1> QED BY <1>1, InitIInv DEF Init, EInv, EspWimIsProcessed, OwnInstall, MountsVouched, Resting

\* A run that is over, or has not begun, promises nothing.
LEMMA RestingKeepsE ==
    ASSUME EInv, IInv', pc' \in {"idle", "copied"},
           esp'["boot.wim"] = esp["boot.wim"] \/ esp'["boot.wim"] = NoFile
    PROVE  EInv'
BY DEF EInv, EspWimIsProcessed, OwnInstall, MountsVouched, Resting

\* A step of a run that changes neither job nor ISOEFI's boot.wim, and brings no install
\* image but the run's own.
LEMMA WorkingKeepsE ==
    ASSUME EInv, IInv', ~Resting, job' = job, esp'["boot.wim"] = esp["boot.wim"],
           data'["install"] # NoFile => data["install"] # NoFile \/ job.iso \in WithInstall,
           pc' \in {"mount", "copy boot.wim"} => bootOk' /\ Detected(job.iso)
    PROVE  EInv'
BY DEF EInv, EspWimIsProcessed, OwnInstall, MountsVouched

LEMMA StartCopyE ==
    ASSUME EInv, IInv', StartCopy
    PROVE  EInv'
<1>1. PICK r \in Record :
        IF KeepsData(r) THEN UNCHANGED <<data, hash>>
        ELSE data' = Empty(DataFiles) /\ hash' = NoHash
  BY DEF StartCopy
<1>2. data'["install"] = NoFile
  BY <1>1, NothingKept, FileNames DEF EInv, IInv, Empty
<1>3. pc' \in {"content", "idle"} /\ esp' = esp
  BY DEF StartCopy, Fail
<1> QED BY <1>2, <1>3 DEF EInv, EspWimIsProcessed, OwnInstall, MountsVouched

LEMMA ExtractContentE ==
    ASSUME EInv, IInv', ExtractContent
    PROVE  EInv'
<1>1. pc = "content" /\ pc' \in {"boot files", "idle"} /\ UNCHANGED <<esp, job>>
  BY DEF ExtractContent, Fail
<1>2. \A broken \in SUBSET Contents(job.iso) : \A skipped :
        LET f == Extracted(job.iso, broken, skipped)["install"] IN
        f # NoFile => data["install"] # NoFile \/ job.iso \in WithInstall
  BY FileNames DEF Extracted, Contents
<1>3. data'["install"] # NoFile => data["install"] # NoFile \/ job.iso \in WithInstall
  <2>1. CASE UNCHANGED data
    BY <2>1
  <2>2. ASSUME NEW broken \in SUBSET Contents(job.iso), NEW skipped \in SUBSET Contents(job.iso),
               \/ data' = Extracted(job.iso, broken, skipped)
               \/ data' = [Extracted(job.iso, broken, skipped) EXCEPT
                                !["content"] = Fresh(job.iso)]
        PROVE  data'["install"] = Extracted(job.iso, broken, skipped)["install"]
    BY <2>2, FileNames DEF Extracted
  <2> QED BY <1>2, <2>1, <2>2 DEF ExtractContent
<1> QED BY <1>1, <1>3, WorkingKeepsE DEF Resting

LEMMA ExtractBootFilesE ==
    ASSUME EInv, IInv', ExtractBootFiles
    PROVE  EInv'
<1>1. /\ pc = "boot files" /\ Detected(job.iso) /\ UNCHANGED job
      /\ pc' \in {"mount", "install"} /\ (pc' = "mount" => bootOk')
  BY DEF ExtractBootFiles, BootFilesThen
<1>2. PICK wim \in BootWimResults, sdi \in SdiResults :
      \E copy \in CopyResults(sdi.file, esp["boot.sdi"]) :
        /\ data' = [data EXCEPT !["boot.wim"] = wim.file, !["boot.sdi"] = sdi.file]
        /\ esp' = [esp EXCEPT !["boot.sdi"] = IF sdi.ok THEN copy.file ELSE @]
  BY DEF ExtractBootFiles, BootFilesThen
<1>3. data'["install"] = data["install"] /\ esp'["boot.wim"] = esp["boot.wim"]
  BY <1>2, FileNames DEF EInv, IInv, TypeOK
<1> QED BY <1>1, <1>3, WorkingKeepsE DEF Resting

LEMMA MountAndProcessWimE ==
    ASSUME EInv, IInv', MountAndProcessWim
    PROVE  EInv'
<1>1. /\ pc = "mount" /\ UNCHANGED <<esp, job>> /\ bootOk /\ Detected(job.iso)
      /\ (pc' = "copy boot.wim" /\ bootOk' = bootOk) \/ pc' = "install"
  BY DEF MountAndProcessWim, EInv, MountsVouched
<1>2. data'["install"] = data["install"]
  BY FileNames DEF MountAndProcessWim, EInv, IInv, TypeOK
<1> QED BY <1>1, <1>2, WorkingKeepsE DEF Resting

\* Here the invariant is put to use.
LEMMA CopyBootWimToEspE ==
    ASSUME EInv, IInv', CopyBootWimToEsp
    PROVE  EInv'
<1>1. pc = "copy boot.wim" /\ pc' = "inject" /\ UNCHANGED <<data, job>>
  BY DEF CopyBootWimToEsp
<1>2. CASE esp' = esp
  BY <1>1, <1>2, WorkingKeepsE DEF Resting
<1>3. ASSUME data["install"] # NoFile,
             NEW copy \in CopyResults(BootWim, esp["boot.wim"]),
             esp' = [esp EXCEPT !["boot.wim"] = copy.file]
      PROVE  EInv'
  <2>1. esp'["boot.wim"] \in {BootWim, esp["boot.wim"], NoFile}
    BY <1>3, FileNames DEF EInv, IInv, TypeOK, CopyResults
  <2>2. job.iso \in WithInstall
    BY <1>1, <1>3 DEF EInv, OwnInstall, Resting
  <2>3. Processed
    BY <1>1 DEF EInv, IInv, MountsVouched, Vouched
  <2>4. EspWimIsProcessed'
    BY <2>1, <2>2, <2>3 DEF EInv, EspWimIsProcessed, Processed
  <2> QED BY <1>1, <2>2, <2>4 DEF EInv, OwnInstall, MountsVouched
<1> QED BY <1>2, <1>3 DEF CopyBootWimToEsp, BootWim

LEMMA InstallStepsE ==
    ASSUME EInv, IInv', ProcessInstallWim \/ CopyInstall
    PROVE  EInv'
<1>1. pc \in {"inject", "install"} /\ pc' \in {"install", "efi"} /\ UNCHANGED <<esp, job>>
  BY DEF ProcessInstallWim, CopyInstall
<1>2. data'["install"] # NoFile => data["install"] # NoFile \/ job.iso \in WithInstall
  <2>1. CASE ProcessInstallWim
    BY <2>1 DEF ProcessInstallWim, Mountable
  <2>2. CASE CopyInstall
    BY <2>2, FileNames DEF CopyInstall, InstallResults, EInv, IInv, TypeOK
  <2> QED BY <2>1, <2>2
<1> QED BY <1>1, <1>2, WorkingKeepsE DEF Resting

LEMMA ExtractEfiE ==
    ASSUME EInv, IInv', ExtractEfi
    PROVE  EInv'
<1>1. pc' \in {"copied", "idle"}
  BY DEF ExtractEfi, Fail
<1>2. esp'["boot.wim"] = esp["boot.wim"]
  <2>1. PICK file : esp' = [esp EXCEPT !["boot file"] = file]
    BY DEF ExtractEfi
  <2> QED BY <2>1, FileNames DEF EInv, IInv, TypeOK
<1> QED BY <1>1, <1>2, RestingKeepsE

LEMMA NextEInv ==
    ASSUME EInv, [Next]_vars
    PROVE  EInv'
<1>1. IInv'
  BY NextIInv DEF EInv
<1>2. CASE Recreate
  <2>1. pc' = "idle" /\ esp'["boot.wim"] = NoFile
    BY <1>2, FileNames DEF Recreate, Empty
  <2> QED BY <1>1, <2>1, RestingKeepsE
<1>3. CASE NoBootFiles
  BY <1>1, <1>3, WorkingKeepsE DEF NoBootFiles, Resting
<1>4. CASE Crash
  BY <1>1, <1>4, RestingKeepsE DEF Crash, Fail
<1>6. CASE FormatAndFail
  BY <1>1, <1>6, RestingKeepsE DEF FormatAndFail, Fail
<1>5. CASE UNCHANGED vars
  BY <1>1, <1>5 DEF EInv, EspWimIsProcessed, OwnInstall, MountsVouched, Resting, Detected, vars
<1> QED BY <1>1, <1>2, <1>3, <1>4, <1>5, <1>6, StartCopyE, ExtractContentE, ExtractBootFilesE,
           MountAndProcessWimE, CopyBootWimToEspE, InstallStepsE, ExtractEfiE DEF Next

LEMMA AlwaysE == Spec => []EInv
<1>1. EInv /\ [Next]_vars => EInv'
  BY NextEInv
<1> QED BY InitEInv, <1>1, PTL DEF Spec

\* Whatever fails, aloud or in silence, and whenever a run is killed: a boot.wim on ISOEFI
\* is whole, has its start files, and comes from an image with an install image, although
\* no run empties ISOEFI and later runs are of other images (processBootWim's order,
\* copyBootWimToEspIfNeeded).
THEOREM EspWimIsGood == Spec => []EspWimIsProcessed
<1>1. EInv => EspWimIsProcessed
  BY DEF EInv
<1> QED BY AlwaysE, <1>1, PTL
=============================================================================
