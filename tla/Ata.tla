--------------------------------- MODULE Ata ---------------------------------
(***************************************************************************)
(* The disk driver, src/arch/x86_64/ata.c: identification and the reads of *)
(* single sectors, polled, against a drive that works at its own pace.     *)
(*                                                                         *)
(* The drive is external.  It takes note of a command a moment after the   *)
(* port was written, and not at all while it is busy or has data to hand   *)
(* over.  Identification waits that moment; a read does not.               *)
(***************************************************************************)
EXTENDS Naturals

CONSTANTS
    Lbas,       \* sectors asked for; those in TooLarge are past LBA28
    TooLarge,
    IdentifyData, \* what IDENTIFY delivers
    None

ASSUME NoneAssumption == None \notin Lbas \cup {IdentifyData}

VARIABLES
    disk,                   \* [exists : {"drive", "absent", "floating"}, prompt, fails]
    drive,                  \* [pending, busy, drq, err, data]
    primary_master_present,
    asked,                  \* the command being polled for, or None
    result,                 \* of the last call: [status, asked, data]
    trouble                 \* history: some read returned an error

ataVars == <<disk, drive, primary_master_present, asked, result, trouble>>

Outcome(status, command, data) == [status |-> status, asked |-> command, data |-> data]
NoResult == Outcome("none", None, None)
Error    == Outcome("error", None, None)
Quiet    == [pending |-> None, busy |-> FALSE, drq |-> FALSE, err |-> FALSE, data |-> None]

AtaInit == /\ drive = Quiet
           /\ primary_master_present = FALSE
           /\ asked = None /\ result = NoResult /\ trouble = FALSE

-----------------------------------------------------------------------------
taken(command) == [pending |-> None, busy |-> TRUE, drq |-> FALSE, err |-> FALSE, data |-> command]

\* ata_init: a status of zero is no drive; a floating bus reads as all ones,
\* the error bit among them.  After ata_delay the drive has the command.
Identify == /\ asked = None /\ result = NoResult /\ ~primary_master_present
            /\ IF disk.exists = "drive"
                  THEN asked' = IdentifyData /\ drive' = taken(IdentifyData) /\ UNCHANGED result
                  ELSE result' = Error /\ UNCHANGED <<drive, asked>>
            /\ UNCHANGED <<disk, primary_master_present, trouble>>

\* ata_read_sector, up to the command; the arguments are checked first.
ata_read_sector(lba) ==
    /\ asked = None /\ primary_master_present
    /\ IF lba \in TooLarge THEN result' = Error /\ UNCHANGED <<drive, asked>>
       ELSE /\ asked' = lba /\ result' = NoResult
               /\ drive' = [drive EXCEPT !.pending = lba]
    /\ UNCHANGED <<disk, primary_master_present, trouble>>

\* wait_for_data, the turns of the loop that leave it.
transfer_short == [drive EXCEPT !.err = FALSE] \* mutant: a word is left, and DRQ with it
transfer == [drive EXCEPT !.drq = FALSE]

SeesError == /\ asked # None
             /\ drive.err
             /\ result' = Error /\ asked' = None
             /\ trouble' = TRUE
             /\ UNCHANGED <<disk, drive, primary_master_present>>

SeesData == /\ asked # None
            /\ ~drive.err /\ ~drive.busy /\ drive.drq
            /\ drive' = transfer
            /\ result' = Outcome("ok", asked, drive.data)
            /\ primary_master_present' = TRUE
            /\ asked' = None
            /\ UNCHANGED <<disk, trouble>>

\* ATA_WAIT_LIMIT: a prompt drive has answered by then, if it took the command.
GiveUp == /\ asked # None
          /\ ~drive.err /\ ~(drive.drq /\ ~drive.busy)
          /\ disk.prompt => ~drive.busy /\ drive.pending = None
          /\ result' = Error /\ asked' = None
          /\ trouble' = TRUE
          /\ UNCHANGED <<disk, drive, primary_master_present>>

Poll == SeesError \/ SeesData \/ GiveUp

-----------------------------------------------------------------------------
\* The drive (external).
DriveUnchanged == UNCHANGED <<disk, primary_master_present, asked, result, trouble>>

Accept ==
    /\ drive.pending # None
    /\ drive' = IF drive.busy \/ drive.drq THEN [drive EXCEPT !.pending = None]
                ELSE taken(drive.pending)
    /\ DriveUnchanged

Deliver == /\ drive.busy
           /\ drive' = [drive EXCEPT !.busy = FALSE, !.drq = TRUE]
           /\ DriveUnchanged

Fail == /\ drive.busy /\ disk.fails
        /\ drive' = [drive EXCEPT !.busy = FALSE, !.err = TRUE]
        /\ DriveUnchanged

Drive == Accept \/ Deliver \/ Fail

AtaNext == Identify \/ (\E lba \in Lbas : ata_read_sector(lba)) \/ Poll \/ Drive
AtaSpec == AtaInit /\ disk \in [exists : {"drive", "absent", "floating"}, prompt : BOOLEAN, fails : BOOLEAN]
           /\ [][AtaNext]_ataVars

-----------------------------------------------------------------------------
\* As long as no call has failed, a read that returns 0 filled the buffer with
\* the sector it was asked for, at whatever moment the drive answers.  (After a
\* failure the drive may still deliver the old sector to the next call.)
SectorAsAsked ==
    ~trouble /\ result.status = "ok" => result.data = result.asked
==============================================================================
