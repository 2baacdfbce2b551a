---------------------------- MODULE MCFrameGate ----------------------------
(***************************************************************************)
(* Small instances of FrameGate for TLC.  A behaviour ends after           *)
(* MaxHostSteps host operations and MaxRuns runs of scripts of at most     *)
(* MaxScriptSteps reads and writes, in any order of the three.             *)
(***************************************************************************)
EXTENDS FrameGate

CONSTANTS MaxHostSteps, MaxRuns, MaxScriptSteps

VARIABLES hostSteps, runs, scriptSteps

MCInit == Init /\ hostSteps = 0 /\ runs = 0 /\ scriptSteps = 0

MCHost ==
  /\ hostSteps < MaxHostSteps
  /\ HostStep
  /\ hostSteps' = hostSteps + 1
  /\ UNCHANGED <<runs, scriptSteps>>

\* A fork of the stack just created is not counted, so that MaxHostSteps
\* operations fit between it and what its restore meets.
MCFork ==
  /\ fork = NoFork /\ hostSteps = 0 /\ runs = 0
  /\ ForkExecution
  /\ UNCHANGED <<hostSteps, runs, scriptSteps>>

MCBegin ==
  /\ runs < MaxRuns
  /\ BeginRun
  /\ runs' = runs + 1
  /\ scriptSteps' = 0
  /\ UNCHANGED hostSteps

MCScript ==
  /\ scriptSteps < MaxScriptSteps
  /\ ScriptStep
  /\ scriptSteps' = scriptSteps + 1
  /\ UNCHANGED <<hostSteps, runs>>

MCEnd == EndRun /\ UNCHANGED <<hostSteps, runs, scriptSteps>>

MCNext == MCHost \/ MCFork \/ MCBegin \/ MCScript \/ MCEnd

MCSpec == MCInit /\ [][MCNext]_<<vars, hostSteps, runs, scriptSteps>>
=============================================================================
