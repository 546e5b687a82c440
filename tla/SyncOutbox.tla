---- MODULE SyncOutbox ----
(***************************************************************************)
(* A branch's sync outbox (app/sync.py) and the head office it talks to    *)
(* (app/routers/hq.py): pairing codes, the branch registry, daily          *)
(* summaries and the owner's dashboard.  Each statement on an autocommit   *)
(* connection is a step; the network loses requests and replies.           *)
(***************************************************************************)
EXTENDS Integers, Sequences, SequencesExt, FiniteSetsExt

CONSTANTS Branches,
          Requests,     \* registrations that may run at once, at head office
          Queuers,      \* calls that may queue at once, at a branch
          Flushers,     \* flushes that may run at once, at a branch
          Days,         \* summary dates, the keys of outbox entries
          BatchSize,    \* entries one flush takes (max_entries)
          MaxCodes, MaxVersions  \* bounds

VARIABLES codes,      \* branch_pairing_codes, in the order of their ids
          registry,   \* head office's branches: token hash and active mark
          held,       \* the token each branch was last given
          issued,     \* tokens issued so far; a token is its number
          register,   \* where each registration stands
          summaries,  \* branch_summaries at head office
          outbox,     \* each branch's sync_outbox, in the order of ids
          figures,    \* history: version of a day's figures last queued
          queue,      \* what each call that queues has read of the outbox
          flush,      \* entries each flush has read and not yet marked
          blurred     \* history: overtaken codes, and days overtaken on the wire
                      \* or in the queue

vars == <<codes, registry, held, issued, register, summaries, outbox, figures, queue, flush, blurred>>
office == <<codes, registry, held, issued, register>>
sync   == <<summaries, outbox, figures, queue, flush>>

idle == [at |-> "idle"]

Init == /\ codes = <<>>
        /\ registry = [b \in Branches |-> [token |-> 0, active |-> FALSE]]
        /\ held = [b \in Branches |-> 0]
        /\ issued = 0
        /\ register = [r \in Requests |-> idle]
        /\ summaries = [b \in Branches |-> [d \in Days |-> 0]]
        /\ outbox = [b \in Branches |-> <<>>]
        /\ figures = [b \in Branches |-> [d \in Days |-> 0]]
        /\ queue = [b \in Branches |-> [q \in Queuers |-> idle]]
        /\ flush = [b \in Branches |-> [f \in Flushers |-> <<>>]]
        /\ blurred = [codes |-> {}, days |-> {}]

(***************************************************************************)
(* Pairing codes and registration.                                         *)
(***************************************************************************)
GenerateCode == /\ Len(codes) < MaxCodes
                /\ codes' = Append(codes, [used |-> FALSE, expired |-> FALSE, failures |-> 0, tokens |-> 0])
                /\ UNCHANGED <<registry, held, issued, register, sync, blurred>>

Expire(k) == /\ ~codes[k].expired
             /\ codes' = [codes EXCEPT ![k].expired = TRUE]
             /\ UNCHANGED <<registry, held, issued, register, sync, blurred>>

\* Faulty variant: a used code opens again until it expires.
ValidUntilExpired(k) == ~codes[k].expired

Valid(k) == ~codes[k].used /\ ~codes[k].expired

\* a known code that is used or expired: the third refusal marks it used
RegisterRefused(k) ==
    /\ ~Valid(k) /\ codes[k].failures < 3  \* bound
    /\ codes' = [codes EXCEPT ![k].failures = @ + 1, ![k].used = @ \/ codes[k].failures + 1 >= 3]
    /\ UNCHANGED <<registry, held, issued, register, sync, blurred>>

RegisterRead(r, b, k) ==
    /\ register[r] = idle
    /\ Valid(k)
    /\ register' = [register EXCEPT ![r] = [at |-> "use", branch |-> b, code |-> k]]
    /\ blurred' = IF \E q \in Requests : register[q].at = "use" /\ register[q].code = k
                  THEN [blurred EXCEPT !.codes = @ \cup {k}] ELSE blurred
    /\ UNCHANGED <<codes, registry, held, issued, sync>>

RegisterUse(r) ==
    /\ register[r].at = "use"
    /\ codes' = [codes EXCEPT ![register[r].code].used = TRUE]
    /\ register' = [register EXCEPT ![r].at = "write"]
    /\ UNCHANGED <<registry, held, issued, sync, blurred>>

\* a new token replaces an earlier one; the branch learns it unless the reply is lost
RegisterWrite(r) ==
    LET b == register[r].branch IN
    /\ register[r].at = "write"
    /\ issued' = issued + 1
    /\ registry' = [registry EXCEPT ![b] = [token |-> issued', active |-> TRUE]]
    /\ codes' = [codes EXCEPT ![register[r].code].tokens = @ + 1]
    /\ held' \in {held, [held EXCEPT ![b] = issued']}
    /\ register' = [register EXCEPT ![r] = idle]
    /\ UNCHANGED <<sync, blurred>>

Revoke(b) == /\ registry[b].active
             /\ registry' = [registry EXCEPT ![b].active = FALSE]
             /\ UNCHANGED <<codes, held, issued, register, sync, blurred>>

\* verify_branch_token, as head office runs it
Verified(b) == registry[b].active /\ registry[b].token = held[b]

(***************************************************************************)
(* The outbox.                                                             *)
(***************************************************************************)
Pending(b) == {i \in DOMAIN outbox[b] : outbox[b][i].status = "pending"}
OnTheWire(b, d) == \E f \in Flushers : \E i \in DOMAIN flush[b][f] : flush[b][f][i].day = d

Queuing(b, d) == {q \in Queuers : queue[b][q] /= idle /\ queue[b][q].day = d}

\* of the figures of a call; calls under way have theirs before it
NextVersion(b, d) == figures[b][d] + Cardinality(Queuing(b, d)) + 1

Blur(b, d, overtaken) ==
    blurred' = IF overtaken THEN [blurred EXCEPT !.days = @ \cup {<<b, d>>}] ELSE blurred

\* Faulty variant: a pending entry of the day is never found.
FindsNone(b, d) == {0}

\* the pending entry of the day, 0 if there is none
Existing(b, d) ==
    LET mine == {i \in Pending(b) : outbox[b][i].day = d}
    IN  IF mine = {} THEN {0} ELSE mine

\* the SELECT: two calls for a day may both find no entry
QueueRead(b, q, d) == \E i \in Existing(b, d) :
    /\ queue[b][q] = idle /\ NextVersion(b, d) <= MaxVersions
    /\ queue' = [queue EXCEPT ![b][q] =
           [at |-> "write", day |-> d, entry |-> i, version |-> NextVersion(b, d)]]
    /\ Blur(b, d, Queuing(b, d) /= {})
    /\ UNCHANGED <<office, summaries, outbox, figures, flush>>

\* the entry found gets the new figures and is pending, whatever became of it meanwhile
QueueWrite(b, q) ==
    LET c == queue[b][q]
        row == [day |-> c.day, version |-> c.version, status |-> "pending"]
    IN  /\ c /= idle
        /\ outbox' = [outbox EXCEPT ![b] = IF c.entry = 0 THEN Append(@, row)
                                           ELSE [@ EXCEPT ![c.entry] = row]]
        /\ figures' = [figures EXCEPT ![b][c.day] = Max({@, c.version})]
        /\ queue' = [queue EXCEPT ![b][q] = idle]
        /\ Blur(b, c.day, OnTheWire(b, c.day))
        /\ UNCHANGED <<office, summaries, flush>>

\* the call dies with the branch's process, and nothing was queued
QueueDies(b, q) == /\ queue[b][q] /= idle
                   /\ queue' = [queue EXCEPT ![b][q] = idle]
                   /\ UNCHANGED <<office, summaries, outbox, figures, flush, blurred>>

\* the pending entries in the order of their ids, as many as fit
FirstPending(b) ==
    {q \in [1 .. Min({Cardinality(Pending(b)), BatchSize}) -> Pending(b)] :
        /\ \A m, n \in DOMAIN q : m < n => q[m] < q[n]
        /\ \A i \in Pending(b) \ Range(q), n \in DOMAIN q : q[n] < i}

\* payloads included, on a connection that is then closed
FlushRead(b, f) == \E batch \in FirstPending(b) :
    /\ flush[b][f] = <<>> /\ batch /= <<>>
    /\ flush' = [flush EXCEPT ![b][f] =
           [n \in DOMAIN batch |-> [id |-> batch[n], day |-> outbox[b][batch[n]].day,
                                    version |-> outbox[b][batch[n]].version, answer |-> "none"]]]
    /\ UNCHANGED <<office, summaries, outbox, figures, queue, blurred>>

\* Faulty variant: the first summary of a day stays.
ReceiveFirstSummary(b, d, v) ==
    [summaries EXCEPT ![b][d] = IF @ = 0 THEN v ELSE @]

\* head office stores what arrives over what it had for the day
ReceiveSummary(b, d, v) == [summaries EXCEPT ![b][d] = v]

\* posted: stored and answered, stored and the answer lost, or not stored at all
FlushPost(b, f) ==
    LET e == Head(flush[b][f]) IN
    /\ flush[b][f] /= <<>> /\ e.answer = "none"
    /\ \/ /\ Verified(b)
          /\ summaries' = ReceiveSummary(b, e.day, e.version)
          /\ \E a \in {"ok", "error"} : flush' = [flush EXCEPT ![b][f][1].answer = a]
       \/ /\ flush' = [flush EXCEPT ![b][f][1].answer = "error"]
          /\ UNCHANGED summaries
    /\ UNCHANGED <<office, outbox, figures, queue, blurred>>

\* an entry that was answered is sent, whatever its payload is by now
FlushMark(b, f) ==
    LET e == Head(flush[b][f]) IN
    /\ flush[b][f] /= <<>> /\ e.answer /= "none"
    /\ outbox' = IF e.answer = "ok" THEN [outbox EXCEPT ![b][e.id].status = "sent"] ELSE outbox
    /\ flush' = [flush EXCEPT ![b][f] = Tail(@)]
    /\ UNCHANGED <<office, summaries, figures, queue, blurred>>

\* the flush dies with the branch's process
FlushDies(b, f) == /\ flush[b][f] /= <<>>
                   /\ flush' = [flush EXCEPT ![b][f] = <<>>]
                   /\ UNCHANGED <<office, summaries, outbox, figures, queue, blurred>>

Next == \/ GenerateCode
        \/ \E k \in DOMAIN codes : Expire(k) \/ RegisterRefused(k)
        \/ \E r \in Requests :
            \/ \E b \in Branches, k \in DOMAIN codes : RegisterRead(r, b, k)
            \/ RegisterUse(r) \/ RegisterWrite(r)
        \/ \E b \in Branches :
            \/ Revoke(b)
            \/ \E q \in Queuers :
                \/ \E d \in Days : QueueRead(b, q, d)
                \/ QueueWrite(b, q) \/ QueueDies(b, q)
            \/ \E f \in Flushers : FlushRead(b, f) \/ FlushPost(b, f) \/ FlushMark(b, f) \/ FlushDies(b, f)

Spec == Init /\ [][Next]_vars

(***************************************************************************)
(* Properties.                                                             *)
(***************************************************************************)
Entry == [id : Nat, day : Days, version : 1 .. MaxVersions, answer : {"none", "ok", "error"}]

\* Variables keep their types, and a day has at most one pending entry unless its
\* figures were overtaken (queue_sync_outbox).
TypeOK ==
    /\ codes \in Seq([used : BOOLEAN, expired : BOOLEAN, failures : 0 .. 3, tokens : Nat])
    /\ registry \in [Branches -> [token : 0 .. issued, active : BOOLEAN]]
    /\ held \in [Branches -> 0 .. issued]
    /\ register \in [Requests -> {idle} \cup
                        [at : {"use", "write"}, branch : Branches, code : DOMAIN codes]]
    /\ blurred \in [codes : SUBSET DOMAIN codes, days : SUBSET (Branches \X Days)]
    /\ {summaries, figures} \subseteq [Branches -> [Days -> 0 .. MaxVersions]]
    /\ \A b \in Branches :
        /\ outbox[b] \in Seq([day : Days, version : 1 .. MaxVersions, status : {"pending", "sent"}])
        /\ \A i, j \in Pending(b) : outbox[b][i].day = outbox[b][j].day =>
                                      i = j \/ <<b, outbox[b][i].day>> \in blurred.days
        /\ \A q \in Queuers : queue[b][q] \in {idle} \cup
               [at : {"write"}, day : Days, entry : 0 .. Len(outbox[b]), version : 1 .. MaxVersions]
        /\ \A f \in Flushers : flush[b][f] \in Seq(Entry)

\* owner_hub_dashboard: the figures of a day over the active branches
OwnerHub(d) ==
    MapThenSumSet(LAMBDA b : summaries[b][d], {b \in Branches : registry[b].active})

\* A code gives out one token, unless two registrations read it before either used it
\* (register_branch).
OneTokenPerCode ==
    \A k \in DOMAIN codes : codes[k].tokens <= 1 \/ k \in blurred.codes

Settled(b, d) == \A i \in DOMAIN outbox[b] : outbox[b][i].day = d => outbox[b][i].status = "sent"

\* When a branch's outbox shows a day as sent, head office has its last figures, through
\* retries, lost answers, deaths and flushes at once, unless new figures were queued while
\* old ones were on the wire or being queued; and the owner's dashboard adds up the
\* active branches
\* (queue_sync_outbox, flush_sync_outbox, receive_branch_summary, owner_hub_dashboard).
SentIsDelivered ==
    \A d \in Days :
        /\ \A b \in Branches :
            Settled(b, d) => summaries[b][d] = figures[b][d] \/ <<b, d>> \in blurred.days
        /\ (\A b \in Branches : Settled(b, d) /\ <<b, d>> \notin blurred.days) =>
            OwnerHub(d) = MapThenSumSet(LAMBDA b : figures[b][d], {b \in Branches : registry[b].active})

====
