-------------------------- MODULE MCImageTransfer --------------------------
(* An image with kernel and ramdisk, one with a kernel only, a snapshot, a *)
(* volume that two flows copy, and an image that is large enough for every *)
(* tenth to be reached.                                                    *)
EXTENDS ImageTransfer

MCTransfer == {"kernel", "ramdisk", "image", "half", "snapshot",
               "volume", "volume2", "large"}

MCKind == [x \in MCTransfer |-> CASE x = "snapshot" -> "snapshot"
                                  [] x \in {"volume", "volume2"} -> "volume"
                                  [] OTHER -> "image"]

MCContent == [x \in MCTransfer |-> IF x = "volume2" THEN "volume" ELSE x]

MCSize == [x \in MCTransfer |-> CASE x = "large" -> 70
                                  [] x \in {"kernel", "ramdisk"} -> 0
                                  [] OTHER -> 1]

MCChunk == [x \in MCTransfer |-> IF x = "large" THEN {1, 6, 23} ELSE {1}]

MCNeeds == [x \in MCTransfer |-> CASE x = "image" -> {"kernel", "ramdisk"}
                                   [] x = "half" -> {"kernel"}
                                   [] OTHER -> {}]

MCPlans == {{"kernel", "ramdisk", "image"}, {"kernel", "half"}, {"snapshot"}, {"volume", "volume2"}, {"large"}}
=============================================================================
