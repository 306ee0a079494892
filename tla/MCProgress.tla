------------------------------ MODULE MCProgress ------------------------------
(* Instances of Notifications, GalleryPage and GridDesk for TLC.  They share *)
(* no state: a behaviour is of the scene it starts in, and the other modules *)
(* rest.                                                                     *)
EXTENDS Notifications, GalleryPage, GridDesk, TLC

CONSTANTS ip, test, s1, owner, other, noChat, cover, i1, z1, z3

MCEvent == {ip, test}
\* suspicious_ip has a threshold, a throttle and a dedup bucket.
MCBucketLen == [e \in MCEvent |-> 1]
MCEventOf == [d \in Dispatch |-> ip]
MCSubjectOf == [d \in Dispatch |-> s1]
MCCountOf == [d \in Dispatch |-> 2]
\* Configured in the UI and on, and configured and off.
MCSetting == {[chat |-> other, enabled |-> on, events |-> {}] : on \in BOOLEAN}

\* "loading" is the page with both images and no toggle; in "gallery" the
\* second image never hydrates.  "desk" is the grid, "tracker" the card beside it.
VARIABLE scene

progressVars == <<scene, notifyVars, galleryVars, deskVars>>

TypeOK ==
    /\ scene \in {"notify", "gallery", "loading", "desk", "tracker"}
    /\ NotifyTypeOK /\ GalleryTypeOK /\ DeskTypeOK

\* The page of the gallery, at rest.
PageRests ==
    /\ fav = FALSE
    /\ img = [i \in Image |-> "resolved"]
    /\ counter = InitialCounter /\ seen = Snapshot(InitialCounter)
    /\ bar = [forced |-> FALSE, done |-> TRUE, hold |-> FALSE]
    /\ splash = "removed" /\ age = "old"
DeskRests == announced = {} /\ ~missed /\ fetch[1].pc = "asked"

Init ==
    /\ NotifyInit /\ ToggleInit /\ DeskInit
    /\ \/ scene = "notify" /\ PageRests /\ DeskRests
       \/ scene = "gallery" /\ token = TRUE /\ PageInit /\ DeskRests
       \/ scene = "loading" /\ token = TRUE /\ fav = FALSE /\ PageInit /\ DeskRests
       \/ /\ scene = "desk" /\ PageRests /\ token = TRUE /\ ~missed /\ fetch[1].pc = "asked"
          /\ row[z1] = "ready" /\ row[z3] = "absent"
       \/ scene = "tracker" /\ PageRests /\ token = TRUE /\ missed

Next ==
    \/ scene = "notify" /\ NotifyNext /\ UNCHANGED <<scene, galleryVars, deskVars>>
    \/ scene = "gallery" /\ GalleryNext /\ img'[i1] = "unmounted" /\ UNCHANGED <<scene, notifyVars, deskVars>>
    \/ scene = "loading" /\ Loads /\ UNCHANGED <<scene, notifyVars, deskVars>>
    \/ scene = "desk" /\ GridNext /\ UNCHANGED <<scene, notifyVars, galleryVars>>
    \/ scene = "tracker" /\ TrackerNext /\ UNCHANGED <<scene, notifyVars, galleryVars>>

Spec == Init /\ [][Next]_progressVars

\* The fairness of each module, in its scene.
Keeps(A) == scene = "notify" /\ A /\ UNCHANGED <<scene, galleryVars, deskVars>>
Polls(A) == scene = "desk" /\ A /\ UNCHANGED <<scene, notifyVars, galleryVars>>
FairSpec ==
    /\ Spec
    /\ WF_progressVars(Keeps(\E h \in Handler : HandlerStep(h)))
    /\ WF_progressVars(Keeps(\E c \in Caller : SendJob(c)))
    /\ WF_progressVars(Keeps(\E j \in Job : ExpireJob(j)))
    /\ WF_progressVars(/\ scene # "notify" /\ Timers /\ UNCHANGED <<scene, notifyVars, toggleVars, deskVars>>)
    /\ WF_progressVars(Polls(GridGoesOn))

-----------------------------------------------------------------------------
\* What the log, the queue and Telegram's chats say of one another: a throttle
\* that saw the earlier row holds, a message twice has a lost answer or an
\* expired job behind it, and a queued row has a job (Notifications).
NotificationsHold == ThrottleSeesEarlierRows /\ MessagesAccounted /\ QueuedIsInCare
=============================================================================
