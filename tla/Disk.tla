-------------------------------- MODULE Disk --------------------------------
(***************************************************************************)
(* What a block driver promises to its callers: one request at a time, its *)
(* effect takes place once, between the call and the return, a read that   *)
(* is not reported as failed returns what the sector holds, and a machine  *)
(* that is reset leaves every sector with its old or its new contents.     *)
(***************************************************************************)
CONSTANTS
  SectorIds,     \* sectors of the disk
  Nothing        \* no request returned in this step

VARIABLES
  disk,          \* disk[s]: contents of sector s
  request,       \* the set of the request that is under way, if there is one
  reply          \* the request that just returned

diskVars == <<disk, request, reply>>

Init == request = {} /\ reply = Nothing

\* A call of the driver.
Begin ==
  /\ request = {}
  /\ \E r \in request' :
       r.type \in {"in", "out"} /\ r.sector \in SectorIds /\ r.state = "asked"
  /\ UNCHANGED disk /\ reply' = Nothing

Perform(r) ==
  /\ r.state = "asked"
  /\ disk' = IF r.type = "out" THEN [disk EXCEPT ![r.sector] = r.data] ELSE disk
  /\ \E d \in {x.data : x \in request'} :
       /\ request' = {[r EXCEPT !.state = "done", !.data = d]}
       /\ d = disk'[r.sector]
  /\ reply' = Nothing

\* The request fails: nothing is read or written.
Fail(r) ==
  /\ r.state = "asked"
  /\ request' = {[r EXCEPT !.state = "failed"]}
  /\ UNCHANGED disk /\ reply' = Nothing

Return(r) ==
  /\ r.state # "asked"
  /\ request' = {}
  /\ reply' = r
  /\ UNCHANGED disk

Reset == request' = {} /\ UNCHANGED disk /\ reply' = Nothing

Forget == UNCHANGED <<disk, request>> /\ reply' = Nothing

Next ==
  \/ Begin \/ Reset \/ Forget
  \/ \E r \in request : Perform(r) \/ Fail(r) \/ Return(r)

Spec == Init /\ [][Next]_diskVars
=============================================================================
