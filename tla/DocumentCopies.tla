---------------------------- MODULE DocumentCopies ----------------------------
(***************************************************************************)
(* The PDFs of the runs: bytes in a store, under a key that is new each    *)
(* time, and a row in `documents` that names the key.  The two are written *)
(* and deleted apart, and neither may fail the run.  The rows outlive a    *)
(* restart; the bytes do if the store does: a bucket, or the database, but *)
(* not the file system of a container, which is where `local` puts them.   *)
(***************************************************************************)
EXTENDS Integers, FiniteSets

CONSTANTS
    Keys,          \* what new_storage_key returns, a different one each time
    Readers,
    MaxFaults      \* bound: writes and deletes that fail

CopiesAssumption == MaxFaults \in Nat

VARIABLES
    saving,        \* where the request that made each key is
    runs,          \* keys whose run exists
    durable,       \* whether the store outlives a restart
    bytes,         \* keys with bytes in the store
    wiped,         \* keys whose bytes were lost with the store
    rows,          \* keys named by a row of a run that exists
    doomed,        \* keys a reset has yet to delete, or has given up on
    reading,       \* the key each reader has taken from a row, and what it saw
    faults

vars == <<saving, runs, durable, bytes, wiped, rows, doomed, reading, faults>>

Stages == {"free", "ran", "saved", "over"}

NotReading == [keys |-> {}, saw |-> "nothing"]

Init ==
    /\ saving = [k \in Keys |-> "free"]
    /\ durable \in BOOLEAN
    /\ runs = {} /\ bytes = {} /\ wiped = {} /\ rows = {} /\ doomed = {}
    /\ reading = [r \in Readers |-> NotReading]
    /\ faults = 0

(* A run has been committed; its document is to follow.                    *)
_persist_document(k) ==
    /\ saving[k] = "free"
    /\ saving' = [saving EXCEPT ![k] = "ran"]
    /\ runs' = runs \cup {k}
    /\ UNCHANGED <<durable, bytes, wiped, rows, doomed, reading, faults>>

(* A temporary file and os.replace, or put_object, or the INSERT: all of   *)
(* it or nothing.                                                          *)
save(k) ==
    /\ saving[k] = "ran"
    /\ bytes' = bytes \cup {k}
    /\ saving' = [saving EXCEPT ![k] = "saved"]
    /\ UNCHANGED <<runs, durable, wiped, rows, doomed, reading, faults>>

(* Mutant of MayRecord: the row does not wait for the bytes.               *)
MayRecordBeforeBytes(k) == saving[k] \in {"ran", "saved"}

MayRecord(k) == saving[k] = "saved"

(* With its run gone the foreign key refuses the row.                      *)
save_document(k) ==
    /\ MayRecord(k)
    /\ rows' = IF k \in runs THEN rows \cup {k} ELSE rows
    /\ saving' = [saving EXCEPT ![k] = "over"]
    /\ UNCHANGED <<runs, durable, bytes, wiped, doomed, reading, faults>>

(* The exception is printed and the run stands without a document.         *)
SaveFails(k) ==
    /\ saving[k] \in {"ran", "saved"}
    /\ faults < MaxFaults
    /\ faults' = faults + 1
    /\ saving' = [saving EXCEPT ![k] = "over"]
    /\ UNCHANGED <<runs, durable, bytes, wiped, rows, doomed, reading>>

(* clear_run_history, to its commit: the keys are read, the rows deleted.  *)
clear_run_history ==
    /\ runs # {}
    /\ doomed' = doomed \cup rows
    /\ rows' = {}
    /\ runs' = {}
    /\ UNCHANGED <<saving, durable, bytes, wiped, reading, faults>>

(* ... and the files, one by one, each as best it can.                     *)
delete(k) ==
    /\ k \in doomed
    /\ \/ bytes' = bytes \ {k} /\ UNCHANGED faults
       \/ faults < MaxFaults /\ faults' = faults + 1 /\ UNCHANGED bytes
    /\ doomed' = doomed \ {k}
    /\ UNCHANGED <<saving, runs, durable, wiped, rows, reading>>

get_document_for_run(r, k) ==
    /\ k \in rows
    /\ reading' = [reading EXCEPT ![r] = [keys |-> {k}, saw |-> "nothing"]]
    /\ UNCHANGED <<saving, runs, durable, bytes, wiped, rows, doomed, faults>>

(* The file as it is by its name, or a 404.                                *)
read(r) ==
    LET k == CHOOSE key \in reading[r].keys : TRUE IN
    /\ reading[r].keys # {} /\ reading[r].saw = "nothing"
    /\ reading' = [reading EXCEPT ![r].saw = IF k \in bytes THEN "whole" ELSE "gone"]
    /\ UNCHANGED <<saving, runs, durable, bytes, wiped, rows, doomed, faults>>

(* Every request and the reset end where they are, and a store that does   *)
(* not outlive the container may come back empty.                          *)
Restart ==
    /\ saving' = [k \in Keys |-> IF saving[k] = "free" THEN "free" ELSE "over"]
    /\ doomed' = {}
    /\ reading' = [r \in Readers |-> NotReading]
    /\ \/ UNCHANGED <<bytes, wiped>>
       \/ ~durable /\ bytes' = {} /\ wiped' = wiped \cup bytes
    /\ UNCHANGED <<runs, durable, rows, faults>>

Next ==
    \/ \E k \in Keys :
          \/ _persist_document(k) \/ save(k) \/ save_document(k)
          \/ SaveFails(k) \/ delete(k)
          \/ \E r \in Readers : get_document_for_run(r, k)
    \/ clear_run_history \/ Restart
    \/ \E r \in Readers : read(r)

Spec == Init /\ [][Next]_vars
-----------------------------------------------------------------------------
TypeOK ==
    /\ saving \in [Keys -> Stages]
    /\ durable \in BOOLEAN /\ bytes \subseteq Keys /\ wiped \subseteq Keys
    /\ runs \subseteq Keys /\ rows \subseteq Keys /\ doomed \subseteq Keys
    /\ \A r \in Readers : reading[r].saw \in {"nothing", "whole", "gone"}
    /\ faults \in 0 .. MaxFaults

(* With a store that outlives a restart a row names bytes that are there,  *)
(* and a reader who took its key from a row misses them only if a reset    *)
(* took the row meanwhile.  With one that does not, the same but for what  *)
(* was in the store at a restart: the row stays, and the download is gone. *)
RowHasItsBytes ==
    /\ rows \subseteq IF durable THEN bytes ELSE bytes \cup wiped
    /\ \A r \in Readers : reading[r].saw = "gone" =>
          \/ reading[r].keys \cap rows = {}
          \/ ~durable /\ reading[r].keys \subseteq wiped
=============================================================================
