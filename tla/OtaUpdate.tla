----------------------------- MODULE OtaUpdate -----------------------------
(***************************************************************************)
(* Firmware update and rollback (ota_handler.cpp).  The handlers run on    *)
(* the one httpd task, an upload as long as it takes; the reboot is left   *)
(* to the main loop, which polls a time set by the handler.  There are two *)
(* partitions: the one that runs and the other, which an upload erases and *)
(* fills.  The boot loader and the OTA functions of ESP-IDF are external:  *)
(* the first starts the chosen partition, or the other one if that is not  *)
(* whole, and set_boot_partition refuses one that is not.                  *)
(*                                                                         *)
(* What is in a partition is the number of the upload, or Torn.  millis()  *)
(* counts modulo ClockMod.  Progress, versions and messages are left out.  *)
(***************************************************************************)
EXTENDS Integers

CONSTANTS
  ClockMod,    \* millis() wraps at this
  Delay,       \* OTA_REBOOT_DELAY_MS
  MaxUploads   \* bound: uploads and rollbacks of the model

OtaAssumption == /\ ClockMod \in Nat /\ ClockMod > 1
                 /\ Delay \in Nat /\ 2 * Delay < ClockMod
                 /\ MaxUploads \in Nat

VARIABLES
  content,     \* what is in each partition
  running,     \* the partition that runs
  boot,        \* the one chosen for the next start
  state,       \* ota_state.state
  inProgress,  \* ota_state.in_progress
  rebootAt,    \* g_ota_reboot_at_ms, 0: none
  now,         \* millis()
  calls

vars == <<content, running, boot, state, inProgress, rebootAt, now, calls>>

Torn == -1
Other == 1 - running
Whole(p) == content[p] # Torn
Busy == state \in {"receiving", "verifying"}

Init ==
  /\ content \in [0..1 -> {0, Torn}] /\ running = 0 /\ boot = 0 /\ Whole(0)
  /\ state = "idle" /\ inProgress = FALSE /\ rebootAt = 0
  /\ now \in 0..ClockMod-1 /\ calls = 0

Called == ~Busy /\ calls < MaxUploads /\ calls' = calls + 1

\* ota_schedule_reboot: 0 means that no reboot is due, so it is not a time.
RebootTime(at) == IF at = 0 THEN 1 ELSE at
ScheduleReboot == rebootAt' = RebootTime((now + Delay) % ClockMod)

\* Up to esp_ota_begin.
UploadStart ==
  /\ Called /\ ~inProgress
  /\ state' = "receiving" /\ inProgress' = TRUE
  /\ content' = [content EXCEPT ![Other] = Torn]
  /\ UNCHANGED <<running, boot, rebootAt, now>>

\* The last chunk is written, of an image that is whole or not.
Received ==
  /\ state = "receiving" /\ state' = "verifying"
  /\ content' \in {[content EXCEPT ![Other] = c] : c \in {calls, Torn}}
  /\ UNCHANGED <<running, boot, inProgress, rebootAt, now, calls>>

\* Any error of an upload.
UploadFails ==
  /\ Busy /\ state' = "error" /\ inProgress' = FALSE
  /\ UNCHANGED <<content, running, boot, rebootAt, now, calls>>

\* Mutant: the upload counts as over before the reboot.
VerifiedFree ==
  /\ state = "verifying" /\ Whole(Other) /\ state' = "done" /\ inProgress' = FALSE
  /\ boot' = Other /\ ScheduleReboot
  /\ UNCHANGED <<content, running, now, calls>>
Verified ==
  /\ state = "verifying" /\ Whole(Other) /\ state' = "done"
  /\ boot' = Other /\ ScheduleReboot
  /\ UNCHANGED <<content, running, inProgress, now, calls>>

Rollback ==
  /\ Called /\ Whole(Other)
  /\ boot' = Other /\ ScheduleReboot
  /\ UNCHANGED <<content, running, state, inProgress, now>>

Started == IF Whole(boot) THEN boot ELSE 1 - boot
Restart ==
  /\ running' = Started
  /\ state' = "idle" /\ inProgress' = FALSE /\ rebootAt' = 0 /\ now' = 0
  /\ UNCHANGED <<content, boot, calls>>

Due == rebootAt # 0 /\ (now - rebootAt) % ClockMod < ClockMod \div 2
\* ota_reboot_poll in the main loop.
RebootPoll == Due /\ Restart
\* A crash, a power failure or a restart for another reason.
RestartElsewhere == calls < MaxUploads /\ Restart

Clock ==
  /\ now' = (now + 1) % ClockMod
  /\ UNCHANGED <<content, running, boot, state, inProgress, rebootAt, calls>>

Next == \/ UploadStart \/ Received \/ UploadFails \/ Verified
        \/ Rollback \/ RebootPoll \/ RestartElsewhere \/ Clock

Spec == Init /\ [][Next]_vars
\* The loop goes round far more often than millis() does.
FairSpec == Spec /\ WF_vars(Clock) /\ SF_vars(RebootPoll)

-----------------------------------------------------------------------------
TypeOK ==
  /\ content \in [0..1 -> {Torn} \cup 0..MaxUploads]
  /\ running \in 0..1 /\ boot \in 0..1
  /\ state \in {"idle", "receiving", "verifying", "done", "error"}
  /\ inProgress \in BOOLEAN /\ rebootAt \in 0..ClockMod-1 /\ now \in 0..ClockMod-1
  /\ calls \in 0..MaxUploads

\* Once an upload has been answered with "OTA complete, rebooting" the next
\* start is that of the new firmware, whatever is called until then
\* ("in_progress stays set").
DoneMeansStarted ==
  [][state = "done" => content'[Other] = content[Other]
                       /\ (running' # running \/ state' = "idle" => running' = Other)]_vars

\* The announced reboot comes, whatever millis() reads when it is announced
\* (BUG-463: it was announced and never came).
RebootComes == rebootAt # 0 \/ state = "done" ~> state = "idle" /\ rebootAt = 0
=============================================================================
