-------------------------- MODULE AcquisitionSweep --------------------------
(***************************************************************************)
(* The sweeps of AcSensorUpdater over its command table.  The commands are *)
(* spread over rounds 0..getMaxInterval(); one sweep goes through all the  *)
(* rounds and ends with setConnectionState(Connected), the flag that tells *)
(* the rest of the program that the measured values are valid.  History    *)
(* variables record what has been read in the current sweep; they restrict *)
(* nothing.                                                                *)
(***************************************************************************)
EXTENDS AcSensorUpdater

VARIABLES
    answered,   \* the commands whose values have arrived in this whole sweep
    whole       \* the sweep has not been interrupted by a setup or a loss

sweepVars == <<updater, meter, late, answered, whole>>

SweepBegins == updater.state = "WaitForStart" /\ updater'.state # "WaitForStart"
SweepEnds ==
    /\ updater.state # "WaitForStart"
    /\ updater.acquisitionIndex # 0
    /\ updater'.acquisitionIndex = 0

(* With the reply that is processed in this step.                          *)
AnsweredNow ==
    IF updater.state = "Acquisition" /\ ReadAnswered
    THEN answered \cup {updater.commandIndex} ELSE answered

SweepInit == Init /\ answered = {} /\ whole = FALSE

(* startMeasurements resets both indices of the acquisition; the setup     *)
(* that a change of the settings requests resets neither, so the sweep it  *)
(* interrupts goes on in the middle of what may be another table.          *)
SweepNext ==
    /\ Next
    /\ whole' = (/\ ~updater'.setupRequested /\ updater'.settings # "none"
                 /\ SweepBegins \/ SweepEnds \/ whole)
    /\ answered' = IF SweepBegins \/ SweepEnds \/ ~whole' THEN {} ELSE AnsweredNow

SweepSpec == SweepInit /\ [][SweepNext]_sweepVars

(* When a sweep ends that nothing has interrupted, every command of the    *)
(* table has been read in it: no interval lies outside the rounds that     *)
(* startNextAcquisition goes through, and no retry or fast round skips one.*)
FullSweep ==
    [][ SweepEnds /\ whole =>
            AnsweredNow = 0 .. Len(Tables[updater.table]) - 1 ]_sweepVars
=============================================================================
