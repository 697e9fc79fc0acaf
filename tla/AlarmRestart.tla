---------------------------- MODULE AlarmRestart ----------------------------
(***************************************************************************)
(* Alarm delivery over restarts of the process: saveOnExit in td2/run.go   *)
(* and the end of loadConfig in td2/types.go.                              *)
(*                                                                         *)
(* On a signal the state file is truncated first; then the alarm cache is  *)
(* marshalled, one map after another and without its lock, while the rest  *)
(* of the program goes on; then the file is written.  The process may end  *)
(* at any moment, after a complete save or without one.  The next process  *)
(* restores four of the five Sent maps and AllAlarms, dropping entries     *)
(* that are a day old; flappingAlarms, the local flags of watch() and the  *)
(* deliveries under way are gone.                                          *)
(***************************************************************************)
EXTENDS AlarmDelivery

VARIABLES
  file,      \* what the state file can be read as (blank if it has no JSON)
  image,     \* the part of the cache that has been marshalled
  saving     \* how far saveOnExit is, see below

storeVars == <<file, image, saving>>
restartVars == <<vars, storeVars>>

\* The maps of the cache in the order in which they are marshalled.
Parts == <<"pd", "tg", "di", "slk", "po", "cache">>

\* saving = 0: no signal yet; k in 1..6: truncated, and about to marshal the
\* k-th part.
Marshalled == 7
Written == 8

Blank == [sent |-> [s \in Sinks |-> {}], active |-> [c \in Chains |-> {}]]

RestartInit == Init /\ file = Blank /\ image = Blank /\ saving = 0

-----------------------------------------------------------------------------
(* saveOnExit *)

BeginSave ==
  /\ saving = 0
  /\ saving' = 1
  /\ file' = Blank
  /\ image' = Blank
  /\ UNCHANGED vars

\* A service that no chain has enabled has an empty map.
Used(part) == part = "cache" \/ \E c \in Chains : part \in Enabled[c]

MarshalPart ==
  /\ saving \in 1..6
  /\ \E next \in (saving + 1)..Marshalled :
       /\ next < Marshalled => Used(Parts[next])
       /\ \A k \in (saving + 1)..(next - 1) : ~Used(Parts[k])
       /\ saving' = next
  /\ image' = IF Parts[saving] = "cache" THEN [image EXCEPT !.active = active]
              ELSE [image EXCEPT !.sent[Parts[saving]] = sent[Parts[saving]]]
  /\ UNCHANGED <<vars, file>>

WriteFile ==
  /\ saving = Marshalled
  /\ saving' = Written
  /\ file' = image
  /\ image' = Blank
  /\ UNCHANGED vars

-----------------------------------------------------------------------------
(* The process ends and is started again *)

RestoredButPagerDuty == {"tg", "di", "slk"}        \* a bug

\* The services whose Sent map loadConfig restores.  Pushover's is saved and
\* not restored.
Restored == {"pd", "tg", "di", "slk"}

KeptSentOnly(stale) ==                             \* a bug
  [sent |-> [s \in Sinks |-> IF s \in Restored THEN file.sent[s] \ stale ELSE {}],
   active |-> [c \in Chains |-> {}]]

\* What the next process reads, without the stale entries.
Kept(stale) ==
  [sent |-> [s \in Sinks |-> IF s \in Restored THEN file.sent[s] \ stale ELSE {}],
   active |-> [c \in Chains |-> file.active[c] \ stale]]

\* Messages of which the file does not say what the memory says: saved too
\* early, not at all, or too long ago.
Outdated(s, stale) ==
  stale \cup (file.sent[s] \ sent[s]) \cup (sent[s] \ file.sent[s])

OutdatedCache(stale) ==
  stale \cup UNION {(file.active[c] \ active[c]) \cup (active[c] \ file.active[c]) :
                      c \in Chains}

\* The entries that loadConfig leaves in the file.
Forgotten(s) == IF s = "po" THEN sent["po"] ELSE {}

\* What the end of the process cut short: deliveries that had not decided yet,
\* and the second half of alert().
Cut(s) == {m \in Messages : ~Settled(s, m)}

CutRecording == {m \in Messages : ~NotRecording(m)}

\* stale: the entries that are staleHours old, in whichever map.
Restart ==
  \E stale \in SUBSET Messages :
    /\ sent' = Kept(stale).sent
    /\ active' = Kept(stale).active
    /\ flap' = {}
    /\ latch' = [c \in Chains |-> {}]
    /\ caller' = [g \in Callers |-> IdleCaller]
    /\ task' = [i \in Slots |-> IdleTask]
    /\ saving' = 0
    /\ image' = Blank
    /\ drift' = [s \in Sinks \cup {"cache"} |->
                   drift[s] \cup IF s = "cache"
                                 THEN CutRecording \cup OutdatedCache(stale)
                                 ELSE Cut(s) \cup Outdated(s, stale) \cup Forgotten(s)]
    /\ lost' = [s \in Sinks |-> lost[s] \cup Outdated(s, stale)
                                \cup {m \in Messages : Posting(s, m)}]
    /\ UNCHANGED <<shown, want, file>>

RestartNext ==
  \/ Next /\ UNCHANGED storeVars
  \/ BeginSave
  \/ MarshalPart
  \/ WriteFile
  \/ Restart

RestartSpec == RestartInit /\ [][RestartNext]_restartVars

-----------------------------------------------------------------------------
(* Properties: those of AlarmDelivery, of which SinkFollowsAlerts says that *)
(* a complete save "will prevent duplicate alerts" (types.go:81), and       *)
(* GatedAnnouncedOnce the same of the alarms that the cache gates.          *)

StoreStates == [sent : [Sinks -> SUBSET Messages],
                active : [Chains -> SUBSET Messages]]

\* The file is read as a cache, the image is filled only while it is being
\* marshalled, and a delivery visits enabled services only.
RestartTypeOK ==
  /\ TypeOK
  /\ file \in StoreStates
  /\ image \in StoreStates
  /\ saving \in 0..Written
  /\ saving \in {0, 1, Written} => image = Blank
=============================================================================
