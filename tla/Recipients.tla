------------------------------ MODULE Recipients ------------------------------
(***************************************************************************)
(* Who is alerted: recipients (app/api/recipients.py, app/db/sqlite/       *)
(* recipients.py), their assignment to targets (app/api/targets.py) and    *)
(* the welcome of a newly assigned one, a task in the background that      *)
(* waits for a restore and that a page polls.  A handler reads first and   *)
(* writes in a transaction later.                                          *)
(***************************************************************************)
EXTENDS Integers, FiniteSets

CONSTANTS
    People,       \* ids of recipients; they are never used again
    Phones,       \* phone numbers
    Watched,      \* ids of targets
    Edits,        \* requests under way at once
    Tasks,        \* ids of welcome tasks
    MaxActive,    \* MAX_ACTIVE_NOTIFICATION_TASKS
    MaxEdits,     \* bound on edits
    NoPhone

ASSUME RecipientsAssumption ==
    /\ NoPhone \notin Phones
    /\ Tasks \subseteq Nat /\ IsFiniteSet(Edits)
    /\ MaxActive \in Nat \ {0} /\ MaxEdits \in Nat

VARIABLES
    people,      \* table recipients
    targetIds,   \* the targets: which exist and which may still be created
    assigned,    \* table target_recipients
    edits,       \* the handlers under way and what they have read
    welcomes,    \* _notification_tasks, and the thread of each task
    expiring,    \* targets whose emptied entry in _notification_tasks is about to go
    closed,      \* maintenance: "no", "yes", or "replaced" until the process ends
    twins,       \* history: who has shared a number since before numbers were unique
    omitted,     \* history: who was left out by the last list of a target
    edited       \* edits so far

peopleVars == <<people, targetIds, assigned, edits, welcomes, expiring, closed, twins, omitted,
                edited>>

Nobody == [id |-> "free", phone |-> NoPhone, email |-> FALSE, enabled |-> FALSE, all |-> FALSE]
NoEdit == [pc |-> "idle", op |-> "none", who |-> Nobody, id |-> 0, target |-> 0, list |-> {}, new |-> {}]
NoTask == [status |-> "none", thread |-> "none", target |-> 0, list |-> {}, todo |-> {},
           assigned |-> {}, queued |-> {}, skipped |-> {}]
Person == {p \in People : people[p].id = "used"}
Targets == {t \in Watched : targetIds[t] = "used"}
Owner(phone) == {p \in Person : people[p].phone = phone}
Recipient(phone, email) ==
    [id |-> "used", phone |-> phone, email |-> email, enabled |-> TRUE, all |-> FALSE]

(* Recipients, who may share their number since a time when that was       *)
(* allowed, and one target.                                                *)
PeopleInit ==
    /\ \E some \in SUBSET People, phone \in Phones :
         /\ Cardinality(some) \in {1, 2}
         /\ people = [p \in People |-> IF p \in some THEN Recipient(phone, FALSE) ELSE Nobody]
         /\ twins = some
    /\ \E t \in Watched : targetIds = [u \in Watched |-> IF u = t THEN "used" ELSE "free"]
    /\ assigned = {}
    /\ edits = [e \in Edits |-> NoEdit]
    /\ welcomes = [w \in Tasks |-> NoTask]
    /\ expiring = {} /\ closed = "no" /\ omitted = {} /\ edited = 0

(* A handler begins; a write is refused while a restore is under way.      *)
MayEdit == edited < MaxEdits /\ closed = "no" /\ edited' = edited + 1
Available(e) == edits[e] = NoEdit /\ MayEdit
Begins(e, edit) == edits' = [edits EXCEPT ![e] = edit]
EndsEdit(e) == edits' = [edits EXCEPT ![e] = NoEdit]

---------------------------------------------------------------------------
(* Recipients                                                              *)

(* The number is looked up, then Signal is asked about it, then it is      *)
(* written.                                                                *)
BeginCreateRecipient(e) ==
    /\ Available(e)
    /\ \E phone \in Phones \union {NoPhone}, email, all \in BOOLEAN :
         /\ phone # NoPhone \/ email
         /\ phone = NoPhone \/ Owner(phone) = {}
         /\ Begins(e, [NoEdit EXCEPT !.pc = "write", !.op = "create",
              !.who = [Recipient(phone, email) EXCEPT !.all = all]])
    /\ UNCHANGED <<people, targetIds, assigned, welcomes, expiring, closed, twins, omitted>>

(* Mutant: the number is trusted to be free since it was looked up.        *)
PhoneAssumed(p, phone) == TRUE

(* _assert_phone_free, in the transaction that writes; the index of the    *)
(* table refuses the same unless old duplicates kept it from being made.   *)
PhoneFree(p, phone) == phone = NoPhone \/ Owner(phone) \subseteq {p}

JoinsAll(p) == assigned \union (Targets \X {p})

CreateRecipient(e) ==
    LET who == edits[e].who IN
    /\ edits[e].pc = "write" /\ edits[e].op = "create"
    /\ \E p \in People :
         /\ people[p].id = "free"
         /\ IF PhoneFree(p, who.phone)
            THEN /\ people' = [people EXCEPT ![p] = who]
                 /\ assigned' = IF who.all THEN assigned \union (Targets \X {p}) ELSE assigned
            ELSE UNCHANGED <<people, assigned>>
    /\ EndsEdit(e)
    /\ UNCHANGED <<targetIds, welcomes, expiring, closed, twins, omitted, edited>>

(* A patch names what it changes, at most two fields here; that a contact  *)
(* remains is decided against the row that was read.                       *)
Patches ==
    {patch \in [phone : Phones \union {NoPhone, "keep"}, email : {"set", "clear", "keep"},
                enabled : {"on", "off", "keep"}, all : {"on", "off", "keep"}] :
        Cardinality({f \in DOMAIN patch : patch[f] # "keep"}) \in {1, 2}}

Patched(row, patch) ==
    [row EXCEPT !.phone = IF patch.phone = "keep" THEN @ ELSE patch.phone,
                !.email = IF patch.email = "keep" THEN @ ELSE patch.email = "set",
                !.enabled = IF patch.enabled = "keep" THEN @ ELSE patch.enabled = "on",
                !.all = IF patch.all = "keep" THEN @ ELSE patch.all = "on"]

HasContact(row) == row.phone # NoPhone \/ row.email

BeginUpdateRecipient(e) ==
    /\ Available(e)
    /\ \E p \in Person, patch \in Patches :
         LET asked == Patched(people[p], patch) IN
         /\ HasContact(asked)
         /\ patch.phone = "keep" \/ asked.phone = people[p].phone \/ PhoneFree(p, asked.phone)
         /\ Begins(e, [NoEdit EXCEPT !.pc = "write", !.op = "update", !.id = p, !.who = patch])
    /\ UNCHANGED <<people, targetIds, assigned, welcomes, expiring, closed, twins, omitted>>

(* Switched on, the flag assigns the recipient to every target; switched   *)
(* off from on, it removes it from every target.  The table refuses a row  *)
(* without a contact.                                                      *)
UpdateRecipient(e) ==
    LET p == edits[e].id  patch == edits[e].who  row == Patched(people[p], patch) IN
    /\ edits[e].pc = "write" /\ edits[e].op = "update"
    /\ IF /\ p \in Person /\ HasContact(row)
          /\ row.phone = people[p].phone \/ PhoneFree(p, row.phone)
       THEN /\ people' = [people EXCEPT ![p] = row]
            /\ assigned' = IF patch.all = "on" THEN JoinsAll(p)
                           ELSE IF patch.all = "off" /\ people[p].all
                           THEN {a \in assigned : a[2] # p} ELSE assigned
            /\ omitted' = IF patch.all = "on" THEN {o \in omitted : o[2] # p} ELSE omitted
            /\ twins' = IF row.phone = people[p].phone THEN twins ELSE twins \ {p}
       ELSE UNCHANGED <<people, assigned, omitted, twins>>
    /\ EndsEdit(e)
    /\ UNCHANGED <<targetIds, welcomes, expiring, closed, edited>>

(* The assignments go with the row.                                        *)
DeleteRecipient(p) ==
    /\ p \in Person /\ MayEdit
    /\ people' = [people EXCEPT ![p] = [Nobody EXCEPT !.id = "gone"]]
    /\ assigned' = {a \in assigned : a[2] # p}
    /\ UNCHANGED <<targetIds, edits, welcomes, expiring, closed, twins, omitted>>

---------------------------------------------------------------------------
(* Targets and their lists of recipients                                   *)

(* One transaction: the list, then everybody who is alerted of all.        *)
CreateTarget(t, list) ==
    /\ targetIds[t] = "free" /\ MayEdit /\ list \subseteq Person
    /\ targetIds' = [targetIds EXCEPT ![t] = "used"]
    /\ assigned' = assigned \union ({t} \X (list \union {p \in Person : people[p].all}))
    /\ UNCHANGED <<people, edits, welcomes, expiring, closed, twins, omitted>>

DeleteTarget(t) ==
    /\ t \in Targets /\ MayEdit
    /\ targetIds' = [targetIds EXCEPT ![t] = "gone"]
    /\ assigned' = {a \in assigned : a[1] # t}
    /\ UNCHANGED <<people, edits, welcomes, expiring, closed, twins, omitted>>

(* Tasks that ended long ago go, and the entry of a target with no task    *)
(* left goes after that.                                                   *)
TaskEnded(w) == welcomes[w].status \in {"completed", "queued", "failed", "deferred"}
Forgotten(old) == [w \in Tasks |-> IF w \in old THEN [welcomes[w] EXCEPT !.status = "forgotten"]
                                   ELSE welcomes[w]]
OfTarget(t) == {w \in Tasks : welcomes[w].target = t /\ welcomes[w].status \notin {"none", "forgotten"}}

PollWelcome(t) ==
    /\ t \notin expiring
    /\ \E old \in SUBSET {w \in OfTarget(t) : TaskEnded(w)} :
         /\ old # {}
         /\ welcomes' = Forgotten(old)
         /\ expiring' = IF old = OfTarget(t) THEN expiring \union {t} ELSE expiring
    /\ UNCHANGED <<people, targetIds, assigned, edits, closed, twins, omitted, edited>>

(* A poll runs in a thread: a task that was added after it had found the   *)
(* entry empty goes with the entry.                                        *)
DropEntry(t) ==
    /\ t \in expiring
    /\ expiring' = expiring \ {t}
    /\ welcomes' = Forgotten(OfTarget(t))
    /\ UNCHANGED <<people, targetIds, assigned, edits, closed, twins, omitted, edited>>

BeginPut(e) ==
    /\ Available(e)
    /\ \E t \in Targets, list \in SUBSET Person :
         Begins(e, [NoEdit EXCEPT !.pc = "read", !.op = "put", !.target = t, !.list = list])
    /\ UNCHANGED <<people, targetIds, assigned, welcomes, expiring, closed, twins, omitted>>

ActiveTasks == {w \in Tasks : welcomes[w].thread \notin {"none", "over"}}

(* _replace_alert_recipients: who is new and whether there are too many    *)
(* tasks is read, then the list is replaced; its rows must still exist.    *)
ReadList(e) ==
    LET new == {p \in edits[e].list : <<edits[e].target, p>> \notin assigned} IN
    /\ edits[e].pc = "read"
    /\ IF /\ edits[e].target \in Targets /\ edits[e].list \subseteq Person
          /\ new # {} => Cardinality(ActiveTasks) < MaxActive
       THEN edits' = [edits EXCEPT ![e].pc = "replace", ![e].new = new]
       ELSE EndsEdit(e)
    /\ UNCHANGED <<people, targetIds, assigned, welcomes, expiring, closed, twins, omitted, edited>>

ReplaceList(e) ==
    LET t == edits[e].target  list == edits[e].list IN
    /\ edits[e].pc = "replace"
    /\ IF t \in Targets /\ list \subseteq Person
       THEN /\ assigned' = {a \in assigned : a[1] # t} \union ({t} \X list)
            /\ omitted' = {o \in omitted : o[1] # t} \union ({t} \X (Person \ list))
            /\ IF edits[e].new = {} THEN EndsEdit(e)
               ELSE edits' = [edits EXCEPT ![e].pc = "welcome"]
       ELSE EndsEdit(e) /\ UNCHANGED <<assigned, omitted>>
    /\ UNCHANGED <<people, targetIds, welcomes, expiring, closed, twins, edited>>

Unused == LET free == {w \in Tasks : welcomes[w] = NoTask} IN {w \in free : \A v \in free : w <= v}

StartWelcome(e, w) ==
    /\ edits[e].pc = "welcome" /\ w \in Unused
    /\ welcomes' = [welcomes EXCEPT ![w] =
         [NoTask EXCEPT !.status = "running", !.thread = "created", !.target = edits[e].target,
                        !.list = edits[e].new, !.todo = edits[e].new]]
    /\ EndsEdit(e)
    /\ UNCHANGED <<people, targetIds, assigned, expiring, closed, twins, omitted, edited>>

---------------------------------------------------------------------------
(* The welcome task                                                        *)

(* A task nobody can poll any more has no status to set.                   *)
Ends(w, status) ==
    welcomes' = [welcomes EXCEPT ![w].thread = "over",
                                 ![w].status = IF @ = "forgotten" THEN @ ELSE status]

(* The thread notes the generation of the data, then waits for the window. *)
BeginWelcome(w) ==
    /\ welcomes[w].thread = "created"
    /\ welcomes' = [welcomes EXCEPT ![w].thread = "waiting"]
    /\ UNCHANGED <<people, targetIds, assigned, edits, expiring, closed, twins, omitted, edited>>

(* The section: a forgotten task and one whose target is gone end at once; *)
(* otherwise who is assigned is read once.                                 *)
EnterSection(w) ==
    LET task == welcomes[w] IN
    /\ task.thread = "waiting" /\ closed = "no"
    /\ IF task.status = "forgotten" \/ task.target \notin Targets THEN Ends(w, "completed")
       ELSE welcomes' = [welcomes EXCEPT ![w].thread = "section",
              ![w].assigned = {p \in People : <<task.target, p>> \in assigned}]
    /\ UNCHANGED <<people, targetIds, assigned, edits, expiring, closed, twins, omitted, edited>>

(* The wait ends when the data was replaced, and after its time or at the  *)
(* shutdown.                                                               *)
Defer(w) ==
    /\ welcomes[w].thread = "waiting" /\ closed # "no"
    /\ Ends(w, "deferred")
    /\ UNCHANGED <<people, targetIds, assigned, edits, expiring, closed, twins, omitted, edited>>

(* Of the recipients one after the other, those who are still there,       *)
(* enabled and assigned have a message queued; an error ends the task.     *)
WelcomeOne(w, p) ==
    LET due == p \in welcomes[w].assigned /\ p \in Person /\ people[p].enabled IN
    /\ welcomes[w].thread = "section" /\ p \in welcomes[w].todo
    /\ \/ welcomes' = [welcomes EXCEPT ![w].todo = @ \ {p},
            ![w].queued = IF due THEN @ \union {p} ELSE @,
            ![w].skipped = IF due THEN @ ELSE @ \union {p}]
       \/ due /\ Ends(w, "failed")
    /\ UNCHANGED <<people, targetIds, assigned, edits, expiring, closed, twins, omitted, edited>>

FinishWelcome(w) ==
    /\ welcomes[w].thread = "section" /\ welcomes[w].todo = {}
    /\ Ends(w, IF welcomes[w].queued # {} THEN "queued" ELSE "completed")
    /\ UNCHANGED <<people, targetIds, assigned, edits, expiring, closed, twins, omitted, edited>>

(* A restore closes the window, waits for the sections and either replaces *)
(* the data or opens it again.  What it restores are the same rows here.   *)
CloseForEdits ==
    /\ closed = "no" /\ closed' = "yes"
    /\ UNCHANGED <<people, targetIds, assigned, edits, welcomes, expiring, twins, omitted, edited>>

OpenForEdits ==
    /\ closed = "yes"
    /\ \/ closed' = "no"
       \/ closed' = "replaced" /\ \A w \in Tasks : welcomes[w].thread # "section"
    /\ UNCHANGED <<people, targetIds, assigned, edits, welcomes, expiring, twins, omitted, edited>>

---------------------------------------------------------------------------
PeopleNext ==
    \/ \E e \in Edits :
         \/ BeginCreateRecipient(e) \/ CreateRecipient(e)
         \/ BeginUpdateRecipient(e) \/ UpdateRecipient(e)
         \/ BeginPut(e) \/ ReadList(e) \/ ReplaceList(e)
         \/ \E w \in Tasks : StartWelcome(e, w)
    \/ \E p \in People : DeleteRecipient(p)
    \/ \E t \in Watched :
         \/ DeleteTarget(t) \/ PollWelcome(t) \/ DropEntry(t)
         \/ \E list \in SUBSET People : CreateTarget(t, list)
    \/ \E w \in Tasks :
         \/ BeginWelcome(w) \/ EnterSection(w) \/ Defer(w) \/ FinishWelcome(w)
         \/ \E p \in People : WelcomeOne(w, p)
    \/ CloseForEdits \/ OpenForEdits

PeopleSpec == PeopleInit /\ [][PeopleNext]_peopleVars

---------------------------------------------------------------------------
(* A number belongs to one recipient, whatever requests for it cross; only *)
(* those who shared it before still may.                                   *)
NumbersAreUnique ==
    \A p, q \in Person :
        p # q /\ people[p].phone = people[q].phone /\ people[p].phone # NoPhone
        => {p, q} \subseteq twins

(* Who is alerted of all targets is assigned to each of them, those made   *)
(* meanwhile too, unless the last list of the target left them out.        *)
FlaggedJoinAll ==
    \A p \in Person, t \in Targets :
        people[p].all => <<t, p>> \in assigned \/ <<t, p>> \in omitted

(* A welcome that says it is completed has looked at every recipient of    *)
(* its list, and none says it is running without a thread.                 *)
WelcomesAreTold ==
    \A w \in Tasks :
        /\ welcomes[w].status = "running" => welcomes[w].thread # "over"
        /\ welcomes[w].status \in {"completed", "queued"} =>
             \/ welcomes[w].queued \union welcomes[w].skipped = welcomes[w].list
             \/ welcomes[w].target \notin Targets

(* Requests that cross may start more tasks than allowed, each one more.   *)
WelcomesAreFew == Cardinality(ActiveTasks) < MaxActive + Cardinality(Edits)

RecipientsKept ==
    /\ NumbersAreUnique /\ FlaggedJoinAll /\ WelcomesAreTold /\ WelcomesAreFew
=============================================================================
