------------------------------ MODULE EngineLease ------------------------------
(***************************************************************************)
(* What the shared inference lock promises: the synthesis engine is leased *)
(* to one request at a time, native calls are made only under the lease,   *)
(* one at a time, and a lease ends only when no native call is running.    *)
(***************************************************************************)
CONSTANT Requests   \* the synthesis requests that compete for the engine

VARIABLES
  holders,   \* the requests that hold the lease: none or one
  calls      \* the requests with a native call in progress: none or one

leaseVars == <<holders, calls>>

LeaseInit == holders = {} /\ calls = {}

Lease(r) ==
  /\ holders = {}
  /\ holders' = {r}
  /\ UNCHANGED calls

Call(r) ==
  /\ r \in holders
  /\ calls = {}
  /\ calls' = {r}
  /\ UNCHANGED holders

Return(r) ==
  /\ r \in calls
  /\ calls' = {}
  /\ UNCHANGED holders

Vacate(r) ==
  /\ r \in holders
  /\ calls = {}
  /\ holders' = {}
  /\ UNCHANGED calls

LeaseNext == \E r \in Requests : Lease(r) \/ Call(r) \/ Return(r) \/ Vacate(r)

LeaseSpec == LeaseInit /\ [][LeaseNext]_leaseVars
================================================================================
