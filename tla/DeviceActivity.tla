--------------------------- MODULE DeviceActivity ---------------------------
(***************************************************************************)
(* The Activity tab of the device dialog (devicedetail.svelte), opened and *)
(* closed by the device list (devicelist.svelte).  The list creates the    *)
(* dialog when a device is opened and destroys it when it closes; opening  *)
(* another device while one is open only changes the device property of    *)
(* the dialog.  An aborted request may still be answered, and every dialog *)
(* that was destroyed may still receive answers and, if one were left      *)
(* armed, a timer.                                                         *)
(***************************************************************************)
EXTENDS Naturals, WebCommon

CONSTANTS Devices,
          Dialogs,    \* bound: the dialogs created one after the other, 1..n
          MaxGen      \* bound: activityGeneration of one dialog

ASSUME ActivityAssumption ==
  /\ None \notin Devices \cup Dialogs
  /\ Dialogs \subseteq Nat \ {0} /\ MaxGen \in Nat

VARIABLES dialog,          \* the dialog on the screen, or None
          created,         \* how many dialogs were created
          device,          \* dialog -> its device property
          activityDeviceID, activity,
          activityRequestRunning, activityTimer, activityGeneration,
          detailDestroyed,
          activityRequests \* requests under way: dialog, device, generation

activityVars == <<dialog, created, device, activityDeviceID, activity,
                  activityRequestRunning, activityTimer, activityGeneration,
                  detailDestroyed, activityRequests>>

ActivityInit ==
  /\ dialog = None /\ created = 0
  /\ device = [i \in Dialogs |-> None]
  /\ activityDeviceID = [i \in Dialogs |-> None]
  /\ activity = [i \in Dialogs |-> None]
  /\ activityRequestRunning = [i \in Dialogs |-> FALSE]
  /\ activityTimer = [i \in Dialogs |-> FALSE]
  /\ activityGeneration = [i \in Dialogs |-> 0]
  /\ detailDestroyed = [i \in Dialogs |-> FALSE]
  /\ activityRequests = {}

(* stopActivity(true) of dialog i, called n times: it cancels the timer    *)
(* and disowns the request by moving to the next generation.               *)
stopActivity(i, n) ==
  /\ activityGeneration' = [activityGeneration EXCEPT ![i] = @ + n]
  /\ activityTimer' = [activityTimer EXCEPT ![i] = FALSE]
  /\ activityRequestRunning' = [activityRequestRunning EXCEPT ![i] = FALSE]
  /\ activityDeviceID' = [activityDeviceID EXCEPT ![i] = None]

(* loadActivity up to its await, when none of its guards holds.            *)
loadActivity(i, d, gen) ==
  /\ activityRequestRunning' = [activityRequestRunning EXCEPT ![i] = TRUE]
  /\ activityRequests' = activityRequests \cup {[dialog |-> i, device |-> d, gen |-> gen]}

(* startActivity(d) of dialog i, from the reactive block that sees a new   *)
(* device: whatever was under way is stopped, then d is asked for.         *)
startActivity(i, d) ==
  /\ activityGeneration' = [activityGeneration EXCEPT ![i] = @ + 1]
  /\ activityTimer' = [activityTimer EXCEPT ![i] = FALSE]
  /\ activityDeviceID' = [activityDeviceID EXCEPT ![i] = d]
  /\ activity' = [activity EXCEPT ![i] = None]
  /\ loadActivity(i, d, activityGeneration[i] + 1)

(* openDetail of the list, with no dialog open: a new one is created.      *)
openDetail(d) ==
  /\ dialog = None
  /\ created + 1 \in Dialogs
  /\ created' = created + 1
  /\ dialog' = created'
  /\ device' = [device EXCEPT ![created'] = d]
  /\ startActivity(created', d)
  /\ UNCHANGED detailDestroyed

(* openDetail while a dialog is open: its device property changes.         *)
switchDetail(d) ==
  /\ dialog # None
  /\ d # device[dialog]
  /\ activityGeneration[dialog] < MaxGen
  /\ device' = [device EXCEPT ![dialog] = d]
  /\ startActivity(dialog, d)
  /\ UNCHANGED <<dialog, created, detailDestroyed>>

(* The dialog goes away: by its own close, which stops the activity and    *)
(* tells the list, or by closeDetail of the list after a save.  onDestroy  *)
(* stops it (again).                                                       *)
closeDetail(stops) ==
  /\ dialog # None
  /\ stopActivity(dialog, stops)
  /\ detailDestroyed' = [detailDestroyed EXCEPT ![dialog] = TRUE]
  /\ dialog' = None
  /\ UNCHANGED <<created, device, activity, activityRequests>>

(* The timer of a dialog calls loadActivity, which has its own guards.     *)
ActivityTimerFires(i) ==
  /\ activityTimer[i]
  /\ activityTimer' = [activityTimer EXCEPT ![i] = FALSE]
  /\ IF /\ ~activityRequestRunning[i] /\ ~detailDestroyed[i]
        /\ activityDeviceID[i] # None /\ activityDeviceID[i] = device[i]
     THEN loadActivity(i, activityDeviceID[i], activityGeneration[i])
     ELSE UNCHANGED <<activityRequestRunning, activityRequests>>
  /\ UNCHANGED <<dialog, created, device, activityDeviceID, activity,
                 activityGeneration, detailDestroyed>>

(* The rest of loadActivity, for an answer or an error (an abort is one).  *)
ActivityAnswer(r, ok) ==
  /\ r \in activityRequests
  /\ activityRequests' = activityRequests \ {r}
  /\ LET i == r.dialog
         own == r.gen = activityGeneration[i]
         current == own /\ ~detailDestroyed[i] /\ r.device = activityDeviceID[i] IN
     /\ activity' = IF ok /\ current THEN [activity EXCEPT ![i] = r.device] ELSE activity
     /\ activityRequestRunning' =
          IF own THEN [activityRequestRunning EXCEPT ![i] = FALSE] ELSE activityRequestRunning
     /\ activityTimer' = IF current THEN [activityTimer EXCEPT ![i] = TRUE] ELSE activityTimer
  /\ UNCHANGED <<dialog, created, device, activityDeviceID, activityGeneration,
                 detailDestroyed>>

ActivityNext ==
  \/ \E d \in Devices : openDetail(d) \/ switchDetail(d)
  \/ \E stops \in {1, 2} : closeDetail(stops)
  \/ \E i \in Dialogs : ActivityTimerFires(i)
  \/ \E r \in activityRequests, ok \in BOOLEAN : ActivityAnswer(r, ok)
=============================================================================
