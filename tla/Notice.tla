------------------------------- MODULE Notice -------------------------------
(***************************************************************************)
(* Announcements of the notice-service: created at once or for later,      *)
(* published by the timed job that every instance runs, recalled by staff, *)
(* and told to the topic notice-event, whose consumer pushes them to the   *)
(* browsers of the park.  A row is written before its event is published,  *)
(* and nothing ties the two together.                                      *)
(***************************************************************************)
EXTENDS Integers, Sequences, FiniteSets

CONSTANTS
    Notices,            \* ids
    Recalls,            \* requests to recall
    PublishRuns,        \* runs of the timed job, of any instance
    NoNotice,
    ScanLimit,          \* publishDueScanLimit
    MaxNoticeFaults     \* (bound) failed or lost calls

ASSUME NoticeAssumption ==
    /\ Notices \subseteq Nat
    /\ NoNotice \notin Notices
    /\ ScanLimit \in Nat \ {0} /\ MaxNoticeFaults \in Nat

VARIABLES
    notice,         \* status of each row
    due,            \* publish_at has come
    creator,        \* the request that creates the notice: its next step
    recall,         \* per recall: its next step and its notice
    run,            \* per run: the due drafts still to do and the one to tell of
    topic,          \* notice-event
    pushed,         \* how many events the consumer has committed
    banner,         \* notices that have been pushed to the browsers
    noticeFaults

noticeVars == <<notice, due, creator, recall, run, topic, pushed, banner, noticeFaults>>

NoticeStatuses == {"none", "draft", "published", "withdrawn"}
\* copy counts, for the properties only, how often the Writer has written it.
Event == [notice : Notices, status : {"published", "withdrawn"}, copy : {1, 2}]
Idle  == [todo |-> {}, tell |-> NoNotice]

NoticeTypeOK ==
    /\ notice \in [Notices -> NoticeStatuses]
    /\ due \in [Notices -> BOOLEAN]
    /\ creator \in [Notices -> {"new", "tell", "done"}]
    /\ recall \in [Recalls -> [at : {"new", "update", "tell", "done"},
                               notice : Notices \cup {NoNotice}]]
    /\ run \in [PublishRuns -> [todo : SUBSET Notices, tell : Notices \cup {NoNotice}]]
    /\ topic \in Seq(Event)
    /\ pushed \in 0..Len(topic)
    /\ banner \subseteq Notices
    /\ noticeFaults \in 0..MaxNoticeFaults

-----------------------------------------------------------------------------
NoticeInit ==
    /\ notice = [n \in Notices |-> "none"]
    /\ due = [n \in Notices |-> FALSE]
    /\ creator = [n \in Notices |-> "new"]
    /\ recall = [q \in Recalls |-> [at |-> "new", notice |-> NoNotice]]
    /\ run = [r \in PublishRuns |-> Idle]
    /\ topic = <<>>
    /\ pushed = 0
    /\ banner = {}
    /\ noticeFaults = 0

\* A call fails, or the process dies and the rest of its work is lost.
NoticeFault ==
    /\ noticeFaults < MaxNoticeFaults
    /\ noticeFaults' = noticeFaults + 1

Written(n, status, copy) == [notice |-> n, status |-> status, copy |-> copy]

\* Publish to notice-event: an error is logged.  The Writer of kafka-go repeats a
\* publication that is not answered, and may write it twice (bound).
Tell(n, status) ==
    \/ /\ topic' = Append(topic, Written(n, status, 1))
       /\ UNCHANGED noticeFaults
    \/ /\ NoticeFault
       /\ \/ topic' = topic \o <<Written(n, status, 1), Written(n, status, 2)>>
          \/ UNCHANGED topic

-----------------------------------------------------------------------------
(* CreateNotice.  A row that is stored though the statement is not         *)
(* answered, here and below, is one whose telling fails.                   *)
CreateNow(n) ==
    /\ creator[n] = "new"
    /\ notice' = [notice EXCEPT ![n] = "published"]
    /\ creator' = [creator EXCEPT ![n] = "tell"]
    /\ UNCHANGED <<due, recall, run, topic, pushed, banner, noticeFaults>>

\* A publish_at in the past is accepted: the draft is due at once.
CreateLater(n) ==
    /\ creator[n] = "new"
    /\ notice' = [notice EXCEPT ![n] = "draft"]
    /\ creator' = [creator EXCEPT ![n] = "done"]
    /\ \E past \in BOOLEAN : due' = [due EXCEPT ![n] = past]
    /\ UNCHANGED <<recall, run, topic, pushed, banner, noticeFaults>>

CreatorTells(n) ==
    /\ creator[n] = "tell"
    /\ Tell(n, "published")
    /\ creator' = [creator EXCEPT ![n] = "done"]
    /\ UNCHANGED <<notice, due, recall, run, pushed, banner>>

TimeComes(n) ==
    /\ notice[n] = "draft" /\ ~due[n]
    /\ due' = [due EXCEPT ![n] = TRUE]
    /\ UNCHANGED <<notice, creator, recall, run, topic, pushed, banner, noticeFaults>>

-----------------------------------------------------------------------------
(* RecallNotice: the status is read, and later overwritten whatever it is. *)
Load(q, n) ==
    /\ recall[q].at = "new"
    /\ notice[n] # "none"
    /\ recall' = [recall EXCEPT ![q] =
                   [at |-> IF notice[n] = "published" THEN "update" ELSE "done",
                    notice |-> n]]
    /\ UNCHANGED <<notice, due, creator, run, topic, pushed, banner, noticeFaults>>

Withdraw(q) ==
    LET n == recall[q].notice
    IN  /\ recall[q].at = "update"
        /\ \/ /\ notice' = [notice EXCEPT ![n] = "withdrawn"]
              /\ recall' = [recall EXCEPT ![q].at = "tell"]
              /\ UNCHANGED noticeFaults
           \/ /\ NoticeFault
              /\ recall' = [recall EXCEPT ![q].at = "done"]
              /\ UNCHANGED notice
        /\ UNCHANGED <<due, creator, run, topic, pushed, banner>>

RecallTells(q) ==
    /\ recall[q].at = "tell"
    /\ Tell(recall[q].notice, "withdrawn")
    /\ recall' = [recall EXCEPT ![q].at = "done"]
    /\ UNCHANGED <<notice, due, creator, run, pushed, banner>>

-----------------------------------------------------------------------------
(* RunPublishDueOnce *)
DueDrafts == {n \in Notices : notice[n] = "draft" /\ due[n]}

\* ... ORDER BY id LIMIT publishDueScanLimit
FirstDue == {n \in DueDrafts : Cardinality({m \in DueDrafts : m < n}) < ScanLimit}

ListDue(r) ==
    /\ run[r] = Idle
    /\ DueDrafts # {}
    /\ run' = [run EXCEPT ![r] = [todo |-> FirstDue, tell |-> NoNotice]]
    /\ UNCHANGED <<notice, due, creator, recall, topic, pushed, banner, noticeFaults>>

\* Mutant: the update asks for the id only.
WinsAlways(n) == TRUE
\* The rows the conditional update changes: one, when the row is a draft still.
WinsDraft(n) == notice[n] = "draft"

Publish(r, n) ==
    LET others == run[r].todo \ {n}
    IN  /\ n \in run[r].todo /\ \A m \in others : n < m
        /\ run[r].tell = NoNotice
        /\ \/ /\ WinsDraft(n)
              /\ notice' = [notice EXCEPT ![n] = "published"]
              /\ run' = [run EXCEPT ![r] = [todo |-> others, tell |-> n]]
              /\ UNCHANGED noticeFaults
           \/ /\ ~WinsDraft(n)
              /\ run' = [run EXCEPT ![r] = [todo |-> others, tell |-> NoNotice]]
              /\ UNCHANGED <<notice, noticeFaults>>
           \/ /\ NoticeFault
              /\ run' = [run EXCEPT ![r] = [todo |-> others, tell |-> NoNotice]]
              /\ UNCHANGED notice
        /\ UNCHANGED <<due, creator, recall, topic, pushed, banner>>

RunTells(r) ==
    /\ run[r].tell # NoNotice
    /\ Tell(run[r].tell, "published")
    /\ run' = [run EXCEPT ![r].tell = NoNotice]
    /\ UNCHANGED <<notice, due, creator, recall, pushed, banner>>

RunDies(r) ==
    /\ run[r] # Idle
    /\ NoticeFault
    /\ run' = [run EXCEPT ![r] = Idle]
    /\ UNCHANGED <<notice, due, creator, recall, topic, pushed, banner>>

-----------------------------------------------------------------------------
(* NoticeEventHandler.Handle: an error leaves the event to be taken again, *)
(* and so does a crash before the commit.  The payload names the event     *)
(* notice_published and has no status, whatever the status of the notice.  *)
Push ==
    /\ pushed < Len(topic)
    /\ \/ /\ banner' = banner \cup {topic[pushed + 1].notice}
          /\ \/ pushed' = pushed + 1 /\ UNCHANGED noticeFaults
             \/ NoticeFault /\ UNCHANGED pushed
       \/ NoticeFault /\ UNCHANGED <<pushed, banner>>
    /\ UNCHANGED <<notice, due, creator, recall, run, topic>>

NoticeNext ==
    \/ \E n \in Notices : CreateNow(n) \/ CreateLater(n) \/ CreatorTells(n) \/ TimeComes(n)
    \/ \E q \in Recalls : (\E n \in Notices : Load(q, n)) \/ Withdraw(q) \/ RecallTells(q)
    \/ \E r \in PublishRuns : ListDue(r) \/ (\E n \in Notices : Publish(r, n)) \/ RunTells(r) \/ RunDies(r)
    \/ Push

NoticeSpec == NoticeInit /\ [][NoticeNext]_noticeVars

-----------------------------------------------------------------------------
\* The announcements of n: those sent, and those that somebody is about to send.
Announcements(n) ==
    {<<"sent", k>> : k \in {j \in DOMAIN topic : topic[j] = Written(n, "published", 1)}}
    \cup {<<"run", r>> : r \in {q \in PublishRuns : run[q].tell = n}}
    \cup {<<"creator", m>> : m \in {k \in {n} : creator[k] = "tell"}}

Told(n, status) == \E k \in DOMAIN topic : topic[k].notice = n /\ topic[k].status = status

(* However many instances run the job, start up over it or die in it, a    *)
(* notice has one announcement at most (which the Writer may repeat), and  *)
(* none in any copy before its row is published; its recall is told of     *)
(* only when the row is withdrawn for good (publish.go:96-107,             *)
(* recallnoticelogic.go:58-82).  Which of the two is sent first is open:   *)
(* both follow their statement, and nothing orders them.                   *)
AnnouncedAsStored ==
    \A n \in Notices :
        /\ \A x, y \in Announcements(n) : x = y
        /\ notice[n] \in {"none", "draft"} =>
             Announcements(n) = {} /\ ~Told(n, "published") /\ n \notin banner
        /\ Told(n, "withdrawn") => notice[n] = "withdrawn"
=============================================================================
