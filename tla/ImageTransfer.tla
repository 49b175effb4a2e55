--------------------------- MODULE ImageTransfer ---------------------------
(***************************************************************************)
(* How the contents of disks reach the destination: EnsureImage and its    *)
(* variants copy an image of glance, SnapshotServer and UploadVolume make  *)
(* the image to be copied first, and CreateVolumeFromImage makes a volume  *)
(* of the copy.  The data goes through the program in chunks, and          *)
(* UploadReporter tells the UI of each tenth.                              *)
(*                                                                         *)
(* Transfers run in the threads of several flows, which share nothing but  *)
(* glance.  The flow of a transfer that failed is run again by the         *)
(* operator.                                                               *)
(***************************************************************************)
EXTENDS Integers

CONSTANTS
    Transfer,
    Kind,       \* Kind[x]: what x copies, "image", "snapshot" or "volume"
    Content,    \* Content[x]: name and checksum of the image or volume
    Size,       \* Size[x]: in bytes
    Chunk,      \* Chunk[x]: in how large pieces the source may send it
    Needs,      \* Needs[x]: the kernel and the ramdisk of an image
    Plans,      \* sets of transfers that may be asked for
    MaxRuns,    \* bound: how often a transfer is begun
    MaxErrors   \* bound: requests that fail

ASSUME TransferAssumption ==
    /\ Kind \in [Transfer -> {"image", "snapshot", "volume"}]
    /\ Size \in [Transfer -> Nat]
    /\ Chunk \in [Transfer -> SUBSET (Nat \ {0})]
    /\ \A x \in Transfer : 1 \in Chunk[x]
    /\ Needs \in [Transfer -> SUBSET Transfer]
    /\ Plans \subseteq SUBSET Transfer
    /\ MaxRuns \in Nat
    /\ MaxErrors \in Nat

VARIABLES
    asked,      \* the transfers that were asked for
    stage,       \* where each transfer is
    run,        \* how often it was begun
    base,       \* the snapshot or uploaded volume in the source's glance
    copy,       \* copy[x][n]: the image its n-th run made in the destination
    given,      \* the copy that x hands on: a transfer and a run
    meter,      \* UploadReporter: bytes uploaded, tenths and reports
    volume,     \* volume[x][n]: the volume its n-th run made
    banner,     \* copies shown as "uploading"
    raced,      \* contents that two transfers were copying at a time
    errors

transferVars == <<asked, stage, run, base, copy, given, meter, volume, banner, raced, errors>>

Run == 1..MaxRuns
Copy == Transfer \X Run
Nowhere == <<>>
NoReport == [uploaded |-> 0, tenths |-> 0, reports |-> 0]

TransferTypeOK ==
    /\ asked \in Plans
    /\ stage \in [Transfer -> {"idle", "ask", "wait", "look", "create", "upload",
                              "check", "build", "building", "done", "failed"}]
    /\ run \in [Transfer -> 0..MaxRuns]
    /\ base \in [Transfer -> {"none", "queued", "active", "error"}]
    /\ copy \in [Transfer -> [Run -> {"none", "saving", "active"}]]
    /\ given \in [Transfer -> Copy \cup {Nowhere}]
    /\ meter \in [Transfer -> [uploaded : Nat, tenths : Nat, reports : Nat]]
    /\ volume \in [Transfer -> [Run -> {"none", "creating", "available", "error"}]]
    /\ banner \subseteq Copy
    /\ errors \in 0..MaxErrors

TransferInit ==
    /\ asked \in Plans
    /\ stage = [x \in Transfer |-> "idle"]
    /\ run = [x \in Transfer |-> 0]
    /\ base = [x \in Transfer |-> "none"]
    /\ copy = [x \in Transfer |-> [n \in Run |-> "none"]]
    /\ given = [x \in Transfer |-> Nowhere]
    /\ meter = [x \in Transfer |-> NoReport]
    /\ volume = [x \in Transfer |-> [n \in Run |-> "none"]]
    /\ banner = {}
    /\ raced = {}
    /\ errors = 0

-----------------------------------------------------------------------------
Here(x) == <<x, run[x]>>

(* A snapshot is of its moment; an image and a volume that is attached to  *)
(* nothing stay what they are.                                             *)
Data(c) == IF Kind[c[1]] = "snapshot" THEN c ELSE <<Content[c[1]]>>

Status(c) == copy[c[1]][c[2]]

Same(x) == {c \in Copy : Data(c) = Data(Here(x))}

(* EnsureImageWithKernel and EnsureImageWithRamdisk call a class they do   *)
(* not derive from, which raises.                                          *)
HalfEquipped(x) == \E y \in Needs[x] : Needs[x] = {y}

To(x, s) == stage' = [stage EXCEPT ![x] = s]

SetCopy(x, s) ==
    copy' = [copy EXCEPT ![x] = [@ EXCEPT ![run[x]] = s]]

SetVolume(x, s) ==
    volume' = [volume EXCEPT ![x] = [@ EXCEPT ![run[x]] = s]]

Copied(x) == To(x, IF Kind[x] = "volume" THEN "build" ELSE "done")

-----------------------------------------------------------------------------
(* The tasks of the kernel and the ramdisk come before the image's.        *)
Begin(x) ==
    /\ stage[x] \in {"idle", "failed"}
    /\ run[x] < MaxRuns
    /\ \A y \in Needs[x] : stage[y] = "done"
    /\ run' = [run EXCEPT ![x] = @ + 1]
    /\ To(x, IF Kind[x] = "image" THEN "look" ELSE "ask")
    /\ base' = [base EXCEPT ![x] = "none"]
    /\ meter' = [meter EXCEPT ![x] = NoReport]
    /\ UNCHANGED <<asked, copy, given, volume, banner, raced, errors>>

(* servers.create_image.                                                   *)
SnapshotServer(x) ==
    /\ stage[x] = "ask"
    /\ Kind[x] = "snapshot"
    /\ base' = [base EXCEPT ![x] = "queued"]
    /\ To(x, "wait")
    /\ UNCHANGED <<asked, run, copy, given, meter, volume, banner, raced, errors>>

(* volumes.upload_to_image.                                                *)
UploadVolume(x) ==
    /\ stage[x] = "ask"
    /\ Kind[x] = "volume"
    /\ base' = [base EXCEPT ![x] = "queued"]
    /\ To(x, "wait")
    /\ UNCHANGED <<asked, run, copy, given, meter, volume, banner, raced, errors>>

SourceStores(x) ==
    /\ base[x] = "queued"
    /\ \E s \in {"active", "error"} : base' = [base EXCEPT ![x] = s]
    /\ UNCHANGED <<asked, stage, run, copy, given, meter, volume, banner, raced, errors>>

SourceImageObserved(x) ==
    /\ stage[x] = "wait"
    /\ base[x] = "active"
    /\ To(x, "look")
    /\ UNCHANGED <<asked, run, base, copy, given, meter, volume, banner, raced, errors>>

(* Mutant: images are looked for by name.                                  *)
LookForImageByName(x) ==
    /\ stage[x] = "look"
    /\ ~HalfEquipped(x)
    /\ \/ \E c \in Same(x) :
              /\ Status(c) # "none"
              /\ given' = [given EXCEPT ![x] = c]
              /\ Copied(x)
       \/ /\ \A c \in Same(x) : Status(c) = "none"
          /\ To(x, "create")
          /\ UNCHANGED given
    /\ UNCHANGED <<asked, run, base, copy, meter, volume, banner, raced, errors>>

(* Mutant: nobody looks.                                                   *)
LookForNothing(x) ==
    /\ stage[x] = "look"
    /\ ~HalfEquipped(x)
    /\ To(x, "create")
    /\ UNCHANGED <<asked, run, base, copy, given, meter, volume, banner, raced, errors>>

(* glance knows the checksum of an image once all of it is there.          *)
LookForImage(x) ==
    /\ stage[x] = "look"
    /\ \/ /\ HalfEquipped(x)
          /\ To(x, "failed")
          /\ UNCHANGED <<given, raced>>
       \/ /\ ~HalfEquipped(x)
          /\ \E c \in Same(x) :
                 /\ Status(c) = "active"
                 /\ given' = [given EXCEPT ![x] = c]
          /\ Copied(x)
          /\ UNCHANGED raced
       \/ /\ ~HalfEquipped(x)
          /\ \A c \in Same(x) : Status(c) # "active"
          /\ To(x, "create")
          /\ raced' = IF \E y \in Transfer \ {x} :
                             /\ stage[y] \in {"create", "upload"}
                             /\ Data(Here(y)) = Data(Here(x))
                      THEN raced \cup {Data(Here(x))} ELSE raced
          /\ UNCHANGED given
    /\ UNCHANGED <<asked, run, base, copy, meter, volume, banner, errors>>

CreateImage(x) ==
    /\ stage[x] = "create"
    /\ SetCopy(x, "saving")
    /\ banner' = banner \cup {Here(x)}
    /\ To(x, "upload")
    /\ UNCHANGED <<asked, run, base, given, meter, volume, raced, errors>>

(* UploadReporter counts tenths of the size in floating point.  When the   *)
(* quotient is a whole number it may come out just below it.               *)
Tenths(lag, size) ==
    {lag \div size} \cup
    {n - 1 : n \in {m \in {lag \div size} : m > 0 /\ lag % size = 0}}

(* Mutant: the steps that were counted are not skipped.                    *)
UpdateOne(r, size, c) ==
    LET sum == r.uploaded + c IN
    IF 10 * sum - r.tenths * size >= size
    THEN {[uploaded |-> sum, tenths |-> r.tenths + 1, reports |-> r.reports + 1]}
    ELSE {[r EXCEPT !.uploaded = sum]}

(* LogReporter.report: one more event with the progress.                   *)
Report(reports, n) == IF n > 0 THEN reports + 1 ELSE reports

(* UploadReporter.update: a report when another tenth is reached; all      *)
(* tenths that were passed are told in one.                                *)
Update(r, size, c) ==
    LET sum == r.uploaded + c IN
    {[uploaded |-> sum, tenths |-> r.tenths + n,
      reports |-> Report(r.reports, n)] :
        n \in Tenths(10 * sum - r.tenths * size, size)}

(* FileProxy.read.                                                         *)
UploadChunk(x) ==
    /\ stage[x] = "upload"
    /\ \E c \in Chunk[x] :
           /\ meter[x].uploaded + c <= Size[x]
           /\ \E r \in Update(meter[x], Size[x], c) : meter' = [meter EXCEPT ![x] = r]
    /\ UNCHANGED <<asked, stage, run, base, copy, given, volume, banner, raced, errors>>

UploadEnds(x) ==
    /\ stage[x] = "upload"
    /\ meter[x].uploaded = Size[x]
    /\ SetCopy(x, "active")
    /\ To(x, "check")
    /\ UNCHANGED <<asked, run, base, given, meter, volume, banner, raced, errors>>

UploadedEvent(x) ==
    /\ stage[x] = "check"
    /\ given' = [given EXCEPT ![x] = Here(x)]
    /\ banner' = banner \ {Here(x)}
    /\ Copied(x)
    /\ UNCHANGED <<asked, run, base, copy, meter, volume, raced, errors>>

CreateVolumeFromImage(x) ==
    /\ stage[x] = "build"
    /\ SetVolume(x, "creating")
    /\ To(x, "building")
    /\ UNCHANGED <<asked, run, base, copy, given, meter, banner, raced, errors>>

CinderBuilds(x) ==
    \E n \in Run :
        /\ volume[x][n] = "creating"
        /\ \E s \in {"available", "error"} :
               volume' = [volume EXCEPT ![x] = [@ EXCEPT ![n] = s]]
        /\ UNCHANGED <<asked, stage, run, base, copy, given, meter, banner, raced, errors>>

VolumeObserved(x) ==
    /\ stage[x] = "building"
    /\ volume[x][run[x]] = "available"
    /\ To(x, "done")
    /\ UNCHANGED <<asked, run, base, copy, given, meter, volume, banner, raced, errors>>

(* Mutant: a wait ends with an error only.  The images and volumes are in  *)
(* the state "error", and wait_for looks for "ERROR".                      *)
WaitGivesUpOnError(x) ==
    /\ \/ stage[x] = "wait" /\ base[x] = "error"
       \/ stage[x] = "building" /\ volume[x][run[x]] = "error"
    /\ To(x, "failed")
    /\ UNCHANGED <<asked, run, base, copy, given, meter, volume, banner, raced, errors>>

(* The error state is not recognised, so that every wait that does not end *)
(* well ends with the timeout.                                             *)
WaitGivesUp(x) ==
    /\ stage[x] \in {"wait", "building"}
    /\ To(x, "failed")
    /\ UNCHANGED <<asked, run, base, copy, given, meter, volume, banner, raced, errors>>

(* A request fails; it may have been carried out.                          *)
TransferFails(x) ==
    /\ errors < MaxErrors
    /\ stage[x] \in {"ask", "wait", "look", "create", "upload", "check", "build",
                    "building"}
    /\ To(x, "failed")
    /\ errors' = errors + 1
    /\ \/ UNCHANGED <<copy, volume>>
       \/ stage[x] = "create" /\ SetCopy(x, "saving") /\ UNCHANGED volume
       \/ /\ stage[x] = "upload" /\ meter[x].uploaded = Size[x]
          /\ SetCopy(x, "active") /\ UNCHANGED volume
       \/ stage[x] = "build" /\ SetVolume(x, "creating") /\ UNCHANGED copy
    /\ UNCHANGED <<asked, run, base, given, meter, banner, raced>>

TransferStep(x) ==
    \/ SnapshotServer(x)
    \/ UploadVolume(x)
    \/ SourceImageObserved(x)
    \/ LookForImage(x)
    \/ CreateImage(x)
    \/ UploadChunk(x)
    \/ UploadEnds(x)
    \/ UploadedEvent(x)
    \/ CreateVolumeFromImage(x)
    \/ VolumeObserved(x)
    \/ WaitGivesUp(x)

TransferNext ==
    \E x \in asked :
        \/ Begin(x)
        \/ TransferStep(x)
        \/ SourceStores(x)
        \/ CinderBuilds(x)
        \/ TransferFails(x)

(* A thread goes on: its requests are answered, the data keeps coming, and *)
(* waits have a timeout.                                                   *)
TransferSpec ==
    /\ TransferInit /\ [][TransferNext]_transferVars
    /\ \A x \in Transfer : WF_transferVars(TransferStep(x))

-----------------------------------------------------------------------------
(* Whatever is handed on, to the boot of a server, to an image that needs  *)
(* it as its kernel, or to a volume, is a complete copy of the right       *)
(* content, also when it was found.                                        *)
HandsOnComplete ==
    /\ \A x \in Transfer :
           (stage[x] \in {"build", "building", "done"}) =>
               /\ given[x] \in Same(x)
               /\ Status(given[x]) = "active"
    /\ \A x \in Transfer, n \in Run :
           copy[x][n] # "none" => \A y \in Needs[x] : Status(given[y]) = "active"

(* However often a transfer is repeated, the data is there once, unless    *)
(* two transfers both had looked before either had finished (image.py:70). *)
CompleteOnce ==
    \A c, d \in Copy :
        (Status(c) = "active" /\ Status(d) = "active" /\ Data(c) = Data(d) /\ c # d)
            => Data(c) \in raced

(* UploadReporter is never more than a tenth behind, reports at most ten   *)
(* times, and never more than is there (tasks/utils.py:52).                *)
ReportsKeepUp ==
    \A x \in Transfer :
        LET r == meter[x] IN
        /\ 10 * r.uploaded - r.tenths * Size[x] \in 0..Size[x]
        /\ r.reports <= r.tenths
        /\ r.reports <= 10

(* Every transfer ends, and does so with complete copies or as failed.     *)
TransferEnds ==
    \A x \in Transfer : (run[x] > 0) ~> (stage[x] \in {"done", "failed"})
=============================================================================
