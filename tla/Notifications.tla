---------------------------- MODULE Notifications ----------------------------
(***************************************************************************)
(* Notifications: a notice (tenant, reference and title) is delivered by a *)
(* job, or by the request itself when Redis fails it, and must be stored   *)
(* once; and the channels a user switched on and off.                      *)
(*                                                                         *)
(* The processor looks for the same notice stored less than a minute ago   *)
(* and inserts if there is none.  That cannot help when two deliveries     *)
(* overlap, when the look-up itself fails, or when a delivery is repeated  *)
(* after the minute: such notices are `loose`.                             *)
(***************************************************************************)
EXTENDS Naturals

CONSTANTS
    Notice, Delivery, Channel, Editor,
    MaxWrongs,   \* bound on what goes wrong
    NoNotice

ASSUME MaxWrongsAssumption == MaxWrongs \in Nat

NoticeAttempts == 3   \* DEFAULT_JOB_OPTIONS.notification.attempts

VARIABLES
    notice,     \* the job of a notice, the rows stored, whether one is less than a minute old, unread
    delivery,   \* processSendNotification in progress
    loose,
    preference, \* rows of the user per channel
    chosen,     \* the last choice of the user per channel
    editing,    \* updatePreferences and getPreferences in progress
    wrongs

noticeVars == <<notice, delivery, loose, preference, chosen, editing, wrongs>>

NoticeRows == [at : {"none", "waiting", "active", "done"}, attempt : 0..NoticeAttempts,
               stored : Nat, recent : BOOLEAN, unread : BOOLEAN]
Deliveries == [of : Notice, at : {"look", "insert"}, queued : BOOLEAN]
Switches == {"none", "on", "off"}
Edits == [missing : SUBSET Channel] \cup [change : [Channel -> {"on", "off"}], left : SUBSET Channel]
ASSUME NoNoticeAssumption == NoNotice \notin Deliveries \cup Edits
Wrong == wrongs < MaxWrongs /\ wrongs' = wrongs + 1

NoticesInit ==
    /\ notice = [n \in Notice |-> [at |-> "none", attempt |-> 0, stored |-> 0, recent |-> FALSE, unread |-> FALSE]]
    /\ delivery = [d \in Delivery |-> NoNotice] /\ loose = {}
    /\ preference = [c \in Channel |-> "none"] /\ chosen = [c \in Channel |-> "none"]
    /\ editing = [e \in Editor |-> NoNotice] /\ wrongs = 0

Others(n) == {d \in Delivery : delivery[d] # NoNotice /\ delivery[d].of = n}
Begun(d, n, queued) ==
    /\ delivery[d] = NoNotice
    /\ delivery' = [delivery EXCEPT ![d] = [of |-> n, at |-> "look", queued |-> queued]]
    /\ loose' = IF Others(n) = {} THEN loose ELSE loose \cup {n}

-----------------------------------------------------------------------------
(* enqueueNotification: the idempotency key makes the job's id. *)
EnqueueNotification(n) ==
    /\ notice[n].at = "none"
    /\ notice' = [notice EXCEPT ![n].at = "waiting"]
    /\ UNCHANGED <<delivery, loose, preference, chosen, editing, wrongs>>
(* The connection to Redis fails: the request processes the job itself, which may have reached the queue. *)
NotifyInline(d, n) ==
    /\ notice[n].at = "none" /\ Wrong
    /\ \E at \in {"waiting", "done"} : notice' = [notice EXCEPT ![n].at = at]
    /\ Begun(d, n, FALSE)
    /\ UNCHANGED <<preference, chosen, editing>>
DeliverNotice(d, n) ==
    /\ notice[n].at = "waiting"
    /\ notice' = [notice EXCEPT ![n].at = "active"]
    /\ Begun(d, n, TRUE)
    /\ UNCHANGED <<preference, chosen, editing, wrongs>>

On(d, at) == delivery[d] # NoNotice /\ delivery[d].at = at
(* What becomes of the job when a delivery returns or throws. *)
Retried(r) == [r EXCEPT !.at = IF r.attempt + 1 < NoticeAttempts THEN "waiting" ELSE "done", !.attempt = r.attempt + 1]
Row(d, fine) ==
    LET n == delivery[d].of
    IN IF ~delivery[d].queued THEN notice[n]
       ELSE IF fine THEN [notice[n] EXCEPT !.at = "done"]
       ELSE Retried(notice[n])
Ended(d) == delivery' = [delivery EXCEPT ![d] = NoNotice]

LookUpBlindly(d) ==
    /\ On(d, "look")
    /\ delivery' = [delivery EXCEPT ![d].at = "insert"] /\ UNCHANGED notice
    /\ UNCHANGED <<loose, preference, chosen, editing, wrongs>>
LookUpRecent(d) ==
    /\ On(d, "look")
    /\ IF notice[delivery[d].of].recent
       THEN Ended(d) /\ notice' = [notice EXCEPT ![delivery[d].of] = Row(d, TRUE)]
       ELSE delivery' = [delivery EXCEPT ![d].at = "insert"] /\ UNCHANGED notice
    /\ UNCHANGED <<loose, preference, chosen, editing, wrongs>>
LookUpFails(d) == \* "proceed to create"
    /\ On(d, "look") /\ Wrong
    /\ delivery' = [delivery EXCEPT ![d].at = "insert"]
    /\ loose' = loose \cup {delivery[d].of}
    /\ UNCHANGED <<notice, preference, chosen, editing>>

(* createNotification stores the row and only then shows it to the browsers, and the job is done; or
   the answer is lost and the job fails. *)
ShownOnly(r) == [r EXCEPT !.unread = TRUE]
Stored(r) == [at |-> r.at, attempt |-> r.attempt, stored |-> r.stored + 1, recent |-> TRUE, unread |-> TRUE]
CreateNotification(d) ==
    /\ On(d, "insert")
    /\ notice' = [notice EXCEPT ![delivery[d].of] = Stored(Row(d, TRUE))]
    /\ Ended(d)
    /\ UNCHANGED <<loose, preference, chosen, editing, wrongs>>
CreateAnswerLost(d) ==
    /\ On(d, "insert") /\ Wrong
    /\ notice' = [notice EXCEPT ![delivery[d].of] = Stored(Row(d, FALSE))]
    /\ Ended(d)
    /\ UNCHANGED <<loose, preference, chosen, editing>>
CreateFails(d) == \* the database, or the process dies
    /\ delivery[d] # NoNotice /\ Wrong
    /\ notice' = [notice EXCEPT ![delivery[d].of] = Row(d, FALSE)]
    /\ Ended(d)
    /\ UNCHANGED <<loose, preference, chosen, editing>>
(* RECENT_WINDOW_MS. *)
MinutePasses(n) ==
    /\ notice[n].recent
    /\ notice' = [notice EXCEPT ![n].recent = FALSE]
    /\ loose' = IF notice[n].at \in {"waiting", "active"} \/ Others(n) # {} THEN loose \cup {n} ELSE loose
    /\ UNCHANGED <<delivery, preference, chosen, editing, wrongs>>

(* markAsRead and markAllAsRead. *)
MarkAsRead(n) ==
    /\ notice[n].unread
    /\ notice' = [notice EXCEPT ![n].unread = FALSE]
    /\ UNCHANGED <<delivery, loose, preference, chosen, editing, wrongs>>
MarkAllAsRead ==
    /\ \E n \in Notice : notice[n].unread
    /\ notice' = [n \in Notice |-> [notice[n] EXCEPT !.unread = FALSE]]
    /\ UNCHANGED <<delivery, loose, preference, chosen, editing, wrongs>>

-----------------------------------------------------------------------------
(* getPreferences: the rows there are; those missing are created, switched on, unless they have come
   to exist meanwhile (skipDuplicates). *)
ReadPreferences(e) ==
    /\ editing[e] = NoNotice /\ \E c \in Channel : preference[c] = "none"
    /\ editing' = [editing EXCEPT ![e] = [missing |-> {c \in Channel : preference[c] = "none"}]]
    /\ UNCHANGED <<notice, delivery, loose, preference, chosen, wrongs>>
Filling(e) == editing[e] # NoNotice /\ "missing" \in DOMAIN editing[e]
OverwriteMissing(e) ==
    /\ Filling(e)
    /\ preference' = [c \in Channel |-> IF c \in editing[e].missing THEN "on" ELSE preference[c]]
    /\ editing' = [editing EXCEPT ![e] = NoNotice]
    /\ UNCHANGED <<notice, delivery, loose, chosen, wrongs>>
EnsureDefaults(e) ==
    /\ Filling(e)
    /\ preference' = [c \in Channel |-> IF c \in editing[e].missing /\ preference[c] = "none" THEN "on" ELSE preference[c]]
    /\ editing' = [editing EXCEPT ![e] = NoNotice]
    /\ UNCHANGED <<notice, delivery, loose, chosen, wrongs>>
(* updatePreferences: one upsert per channel, each a statement of its own. *)
UpdatePreferences(e, change) ==
    /\ editing[e] = NoNotice /\ Wrong
    /\ editing' = [editing EXCEPT ![e] = [change |-> change, left |-> Channel]]
    /\ UNCHANGED <<notice, delivery, loose, preference, chosen>>
LeftWithout(edit, c) == [edit EXCEPT !.left = edit.left \ {c}]
UpsertPreference(e, c) ==
    /\ editing[e] # NoNotice /\ ~Filling(e) /\ c \in editing[e].left
    /\ preference' = [preference EXCEPT ![c] = editing[e].change[c]]
    /\ chosen' = [chosen EXCEPT ![c] = editing[e].change[c]]
    /\ editing' = [editing EXCEPT ![e] = IF @.left = {c} THEN NoNotice ELSE LeftWithout(@, c)]
    /\ UNCHANGED <<notice, delivery, loose, wrongs>>

NoticesNext ==
    \/ \E n \in Notice : EnqueueNotification(n) \/ MinutePasses(n) \/ MarkAsRead(n)
    \/ \E d \in Delivery, n \in Notice : NotifyInline(d, n) \/ DeliverNotice(d, n)
    \/ \E d \in Delivery : \/ LookUpRecent(d) \/ LookUpFails(d)
                           \/ CreateNotification(d) \/ CreateAnswerLost(d) \/ CreateFails(d)
    \/ MarkAllAsRead
    \/ \E e \in Editor : \/ ReadPreferences(e) \/ EnsureDefaults(e)
                         \/ \E change \in [Channel -> {"on", "off"}] : UpdatePreferences(e, change)
                         \/ \E c \in Channel : UpsertPreference(e, c)

NoticesSpec == NoticesInit /\ [][NoticesNext]_noticeVars

-----------------------------------------------------------------------------
(* Notices, deliveries and preferences have the values of the schema; an active job is in one
   delivery. *)
NoticesTypeOK ==
    /\ notice \in [Notice -> NoticeRows] /\ loose \subseteq Notice /\ wrongs \in 0..MaxWrongs
    /\ delivery \in [Delivery -> Deliveries \cup {NoNotice}] /\ editing \in [Editor -> Edits \cup {NoNotice}]
    /\ preference \in [Channel -> Switches] /\ chosen \in [Channel -> Switches]
    /\ \A n \in Notice : \A d, f \in Others(n) : delivery[d].queued /\ delivery[f].queued => d = f
    /\ \A n \in Notice : notice[n].recent \/ notice[n].unread => notice[n].stored > 0

(* "Retrying the same logical notification must not duplicate side effects beyond the first successful
   DB insert" (notification.processor.js:7): through failures, lost answers and deaths, unless the
   notice is loose. *)
NoticeOnce == \A n \in Notice : n \notin loose => notice[n].stored <= 1

(* What the user chose last for a channel holds, whichever requests fill in the defaults meanwhile
   (ensureDefaults, upsert). *)
ChoiceHolds == \A c \in Channel : chosen[c] # "none" => preference[c] = chosen[c]

=============================================================================
