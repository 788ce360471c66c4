-------------------------------- MODULE Tools -------------------------------
(***************************************************************************)
(* The episodes of a parallel batch and the tools they call: what they     *)
(* claim in the plan (module Claims), and the processes and pages they     *)
(* start (module Services).  An episode makes one call at a time; a tool   *)
(* of the plan runs whole, under the planner's lock, between two steps of  *)
(* another episode's process or browser call.                              *)
(***************************************************************************)
EXTENDS Claims, Services

CONSTANT MaxCalls       \* bound: tool calls of the batch

ASSUME MaxCallsAssumption == MaxCalls \in Nat

VARIABLE calls          \* calls made so far

toolVars == <<claimVars, serviceVars, calls>>

ToolsInit == ClaimsInit /\ ServicesInit /\ calls = 0

MayCall(t) == calls < MaxCalls /\ Idle(t) /\ t \notin finished

ClaimOf(t) ==
  /\ MayCall(t) /\ calls' = calls + 1
  /\ ClaimCall(t) /\ UNCHANGED serviceVars

BeginOf(t) ==
  /\ MayCall(t) /\ calls' = calls + 1
  /\ Begins(t) /\ UNCHANGED claimVars

GoOnOf(t) == GoesOn(t) /\ UNCHANGED <<claimVars, calls>>

Outside == (Around \/ CloseBrowser) /\ UNCHANGED <<claimVars, calls>>

ToolsNext == (\E t \in Thread : ClaimOf(t) \/ BeginOf(t) \/ GoOnOf(t)) \/ Outside

ToolsSpec == ToolsInit /\ [][ToolsNext]_toolVars
=============================================================================
