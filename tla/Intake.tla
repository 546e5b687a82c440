---- MODULE Intake ----
(***************************************************************************)
(* One supplier bill from its pictures to the stock (app/routers/bills.py, *)
(* app/jobs.py): uploads and added pages are background jobs that write    *)
(* pages, lines and the verdict in autocommitted statements while the user *)
(* edits, confirms, deletes and restores the same bill.                    *)
(***************************************************************************)
EXTENDS Extraction

CONSTANTS Batches,   \* job -> its pictures in order, each with the number of its file
          Replies    \* what providers may make of a picture

VARIABLES bill,     \* the bills row with its bill_pages and bill_items
          job,      \* JOBS: where each job stands
          form,     \* lines in the editor of a user who loaded the bill
          stock,    \* category_stock_state, pieces of this bill in it
          realign,  \* a rebuild the last confirmation still owes
          astray,   \* history: a job moved the bill under the stock
          crowded   \* history: two jobs numbered pages at once

vars == <<bill, job, form, stock, realign, astray, crowded>>

Jobs == DOMAIN Batches
Pics(j) == [i \in DOMAIN Batches[j] |-> Batches[j][i].pic]
NoBill == [status |-> "none", deleted |-> FALSE, pages |-> {}, lines |-> {}]
idle == [at |-> "idle", kind |-> "upload", base |-> 0, page |-> 0, lines |-> {}, status |-> "review"]

Init == /\ bill = NoBill
        /\ job = [j \in Jobs |-> idle]
        /\ form = {} /\ stock = 0
        /\ realign = FALSE /\ astray = FALSE /\ crowded = FALSE

PiecesOf(lines) == MapThenSumSet(LAMBDA l : l.pieces, lines)
CountedIn(b) == IF b.status = "confirmed" /\ ~b.deleted THEN PiecesOf(b.lines) ELSE 0
Stored == bill.status \in {"review", "confirmed"}
Working == {j \in Jobs : job[j].at \notin {"idle", "done", "error"}}

-----------------------------------------------------------------------------
(* Starting a job.  The bill row comes first.                              *)
\* Faulty variant: pages are added by file, not by page (as before v8.18.5).
NextPageByFile(j) == job[j].base + Batches[j][job[j].page + 1].file
NextPage(j) == job[j].base + job[j].page + 1

Started(j, kind, base) ==
    job' = [job EXCEPT ![j] = [idle EXCEPT !.at = "render", !.kind = kind, !.base = base]]

UploadAsync(j) ==
    /\ bill = NoBill /\ job[j] = idle
    /\ bill' = [NoBill EXCEPT !.status = "review"]
    /\ Started(j, "upload", 0)
    /\ UNCHANGED <<form, stock, realign, astray, crowded>>

EmptyBill ==
    /\ bill = NoBill
    /\ bill' = [NoBill EXCEPT !.status = "review"]
    /\ UNCHANGED <<job, form, stock, realign, astray, crowded>>

AddPages(j) ==
    /\ Stored /\ ~bill.deleted /\ job[j] = idle
    /\ Started(j, "add", Max({p.no : p \in bill.pages} \cup {0}))
    /\ crowded' = (crowded \/ \E i \in Jobs : job[i].at = "render" /\ job[i].page < Len(Pics(i)))
    /\ UNCHANGED <<bill, form, stock, realign, astray>>

-----------------------------------------------------------------------------
(* The job.  Statements fail when the bill row is gone (foreign key) or    *)
(* the store stays locked; the job then ends in "error".                   *)
Advance(j, r) == job' = [job EXCEPT ![j] = r]
Fails(j) == /\ Advance(j, [idle EXCEPT !.at = "error"])
            /\ UNCHANGED <<bill, form, stock, realign, astray, crowded>>

RenderPage(j) ==
    /\ job[j].at = "render" /\ job[j].page < Len(Pics(j)) /\ Stored
    /\ bill' = [bill EXCEPT !.pages = @ \cup {[no |-> NextPage(j), pic |-> Pics(j)[job[j].page + 1]]}]
    /\ Advance(j, [job[j] EXCEPT !.page = @ + 1])
    /\ UNCHANGED <<form, stock, realign, astray, crowded>>

Providers == UNION {Range(Groups[g]) : g \in DOMAIN Groups}
Verdicts == [j \in Jobs |->
    {Verdict(Pics(j), r) : r \in [Providers -> [Range(Pics(j)) -> Replies]]}]

\* page numbers of the batch are moved past the pages the bill had
Shifted(lines, base) == {[l EXCEPT !.page = @ + base] : l \in lines}

ExtractPages(j) ==
    /\ job[j].at = "render" /\ job[j].page = Len(Pics(j))
    /\ \E v \in Verdicts[j] :
          Advance(j, [job[j] EXCEPT !.at = "save", !.status = v.status,
                                    !.lines = Shifted(v.lines, job[j].base)])
    /\ UNCHANGED <<bill, form, stock, realign, astray, crowded>>

\* one INSERT; the order of the lines plays no part
SaveLine(j) ==
    /\ job[j].at = "save" /\ job[j].lines # {} /\ Stored
    /\ LET l == CHOOSE l \in job[j].lines : TRUE IN
          /\ bill' = [bill EXCEPT !.lines = @ \cup {l}]
          /\ Advance(j, [job[j] EXCEPT !.lines = @ \ {l}])
    /\ astray' = (astray \/ bill.status = "confirmed")
    /\ UNCHANGED <<form, stock, realign, crowded>>

\* an upload overwrites the row, whatever the user has made of it meanwhile
SaveUpload(j) ==
    /\ job[j].at = "save" /\ job[j].lines = {} /\ job[j].kind = "upload"
    /\ bill' = IF Stored THEN [bill EXCEPT !.status = job[j].status] ELSE bill
    /\ astray' = (astray \/ (Stored /\ "confirmed" \in {bill.status, job[j].status}))
    /\ Advance(j, [idle EXCEPT !.at = "done"])
    /\ UNCHANGED <<form, stock, realign, crowded>>

\* added pages send the bill back to review, a confirmed one too
SaveAdded(j) ==
    /\ job[j].at = "save" /\ job[j].lines = {} /\ job[j].kind = "add"
    /\ bill' = IF Stored THEN [bill EXCEPT !.status = "review"] ELSE bill
    /\ astray' = (astray \/ bill.status = "confirmed")
    /\ Advance(j, [idle EXCEPT !.at = "done"])
    /\ UNCHANGED <<form, stock, realign, crowded>>

JobFails(j) == j \in Working /\ Fails(j)

-----------------------------------------------------------------------------
(* The user.  An editor keeps the lines it was opened with.                *)
OpenForm == /\ Stored /\ ~bill.deleted
            /\ form' = bill.lines
            /\ UNCHANGED <<bill, job, stock, realign, astray, crowded>>

ByHand == [pic |-> "none", k |-> 1, page |-> 0, pieces |-> 1]

\* Faulty variant: a confirmed bill's old purchases are left in the stock.
ReversedKeep(b) == 0
Reversed(b) == IF b.status = "confirmed" THEN PiecesOf(b.lines) ELSE 0

Confirm ==
    /\ Stored /\ ~bill.deleted
    /\ \E lines \in {form, form \cup {ByHand}} :
          /\ bill' = [bill EXCEPT !.status = "confirmed", !.lines = lines]
          /\ stock' = stock - Reversed(bill) + PiecesOf(lines)
    /\ realign' = (realign \/ bill.status = "confirmed")
    /\ UNCHANGED <<job, form, astray, crowded>>

Replays(b) == stock' = CountedIn(b) /\ astray' = FALSE

\* rebuild_stock_state after a confirmation that repeated one
Rebuild == /\ realign /\ realign' = FALSE
           /\ Replays(bill)
           /\ UNCHANGED <<bill, job, form, crowded>>

Moved(b) ==
    /\ bill' = b
    /\ IF bill.status = "confirmed" /\ bill.lines # {} THEN Replays(b)
                                                      ELSE UNCHANGED <<stock, astray>>
    /\ UNCHANGED <<job, form, realign, crowded>>

SoftDelete == Stored /\ ~bill.deleted /\ Moved([bill EXCEPT !.deleted = TRUE])
Restore == Stored /\ bill.deleted /\ Moved([bill EXCEPT !.deleted = FALSE])

\* an already deleted bill was taken out of the stock before
HardDelete ==
    /\ Stored
    /\ bill' = [NoBill EXCEPT !.status = "gone"]
    /\ IF bill.status = "confirmed" /\ ~bill.deleted /\ bill.lines # {}
       THEN Replays(bill') ELSE UNCHANGED <<stock, astray>>
    /\ UNCHANGED <<job, form, realign, crowded>>

\* jobs live in memory; the boot replays when the dirty flag is set
Restart(replay) ==
    /\ job' = [j \in Jobs |-> IF job[j] = idle THEN idle ELSE [idle EXCEPT !.at = "error"]]
    /\ realign' = FALSE
    /\ IF replay THEN Replays(bill) ELSE UNCHANGED <<stock, astray>>
    /\ UNCHANGED <<bill, form, crowded>>

Next ==
    \/ \E j \in Jobs : \/ UploadAsync(j) \/ AddPages(j)
                       \/ RenderPage(j) \/ ExtractPages(j) \/ SaveLine(j)
                       \/ SaveUpload(j) \/ SaveAdded(j) \/ JobFails(j)
    \/ EmptyBill \/ OpenForm \/ Confirm \/ Rebuild
    \/ SoftDelete \/ Restore \/ HardDelete
    \/ \E replay \in BOOLEAN : Restart(replay)

Spec == Init /\ [][Next]_vars

-----------------------------------------------------------------------------
TypeOK ==
    /\ bill.status \in {"none", "review", "confirmed", "gone"}
    /\ \A p \in bill.pages : p.no \in Nat
    /\ \A l \in bill.lines \cup form : l.pieces \in Nat /\ l.page \in Nat
    /\ stock \in Int

(***************************************************************************)
(* A line shows the picture it was read from: the page number stored with  *)
(* it belongs to exactly that picture, however the pages were shared out   *)
(* among providers and numbered by several jobs, unless a job began to     *)
(* number its pages while another was numbering.                           *)
(***************************************************************************)
ItemsShowTheirPage ==
    ~crowded => \A l \in bill.lines \ {ByHand} :
                    {p.pic : p \in {q \in bill.pages : q.no = l.page}} = {l.pic}

(***************************************************************************)
(* The stock holds the bill's pieces exactly when it is a live confirmed   *)
(* bill, through repeated confirmations of lines that changed meanwhile,   *)
(* deletion and undo, except after a job stored lines in a confirmed bill, *)
(* took its status away or gave it that status, until the next replay.     *)
(***************************************************************************)
StockFollowsBill == ~astray => stock = CountedIn(bill)

====
