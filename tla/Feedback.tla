----------------------------- MODULE Feedback ------------------------------
(***************************************************************************)
(* What users say of the turns they were served, over the rows of          *)
(* Telemetry: the signed link that comes with every answer and the         *)
(* /router-feedback command typed into the conversation.                   *)
(*                                                                         *)
(* A command may select a turn by its number.  It resolves the number in   *)
(* the table, records the submission, writes the thumb of the turn it      *)
(* resolved, reports to the policy that routed it and acknowledges, each   *)
(* in a statement of its own; links are followed and rows land in between. *)
(* The model a submission is attributed to is left out.                    *)
(***************************************************************************)
EXTENDS Telemetry

CONSTANTS
    HMMStrategies,  \* the strategies trained on conversations
    Reporters,      \* the strategies whose sidecar takes feedback
    Trainable,      \* the sessions whose conversation may be trained on
    Speakers,       \* bound: the sessions that type commands
    Numbers,        \* bound: the numbers they type
    LinkTTL         \* how long a link is good for; 0: for ever

ASSUME FeedbackAssumption ==
    /\ HMMStrategies \subseteq Strategies
    /\ Reporters \subseteq Strategies
    /\ Trainable \cup Speakers \subseteq Sessions
    /\ Numbers \subseteq -99 .. 99
    /\ LinkTTL \in Nat
    /\ None \notin {"up", "down"}

VARIABLES
    thumbs,     \* request_feedback: a turn's rating
    recorded,   \* router_feedback: the submissions
    reports,    \* what the policies' sidecars were told
    command,    \* the command each session is executing
    spoken,     \* submissions so far
    linked      \* history: the thumbs each turn was given by its link

feedbackVars == <<thumbs, recorded, reports, command, spoken, linked>>
vars == <<telemetryVars, feedbackVars>>

Thumbs == {"up", "down"}
Ids == 1 .. MaxTurns
NoTurn == 0

Idle == [step |-> "idle", number |-> 0, rating |-> None, turn |-> NoTurn,
         strategy |-> None]

----------------------------------------------------------------------------
(* Numbers of turns.  A number counts the turns the user asked for of the  *)
(* session whose rows have landed, from the first or, negative, from the   *)
(* last.                                                                   *)

Counted(s) ==
    {id \in rows : turns[id].key = s /\ turns[id].kind = "main_loop"}

Earlier(a, b) ==
    \/ turns[a].at < turns[b].at
    \/ turns[a].at = turns[b].at /\ a < b

\* ORDER BY ... LIMIT 1 OFFSET offset: the rows of the answer, one or none.
BySessionAsc(s, offset) ==
    {id \in Counted(s) :
        Cardinality({other \in Counted(s) : Earlier(other, id)}) = offset}

BySessionDesc(s, offset) ==
    {id \in Counted(s) :
        Cardinality({other \in Counted(s) : Earlier(id, other)}) = offset}

\* The turn a number selects, if there are that many.
BySequence(s, number) ==
    IF number > 0 THEN BySessionAsc(s, number - 1) ELSE BySessionDesc(s, -number - 1)

----------------------------------------------------------------------------
(* The rating of one turn. *)

Upsert(id, rating) == thumbs' = [thumbs EXCEPT ![id] = rating]

\* The page behind a link.  The row may be late or lost, and that must
\* not hide a rating.
Page(id) ==
    [model |-> IF id \in rows THEN turns[id].model ELSE None,
     rating |-> thumbs[id]]

LinkIsGood(id) == LinkTTL = 0 \/ now < turns[id].at + LinkTTL

\* Somebody follows the link of a turn and gives it a thumb, with the page's
\* form or with one click.
FollowLink(id, rating) ==
    /\ id \in DOMAIN turns
    /\ LinkIsGood(id)
    /\ spoken < scenario.submissions
    /\ spoken' = spoken + 1
    /\ Upsert(id, rating)
    /\ linked' = [linked EXCEPT ![id] = @ \cup {rating}]
    /\ UNCHANGED <<telemetryVars, recorded, reports, command>>

----------------------------------------------------------------------------
(* The command.  The note of a submission is left out: None is a command   *)
(* with a note and no thumb.  One with neither is refused and changes      *)
(* nothing.  The request a command comes with has been given the strategy  *)
(* that was the session's when it began.                                   *)

Type(s, number, rating) ==
    /\ command[s].step = "idle"
    /\ spoken < scenario.submissions
    /\ spoken' = spoken + 1
    /\ command' = [command EXCEPT ![s] =
          [Idle EXCEPT !.step = IF number = 0 THEN "record" ELSE "resolve",
                       !.number = number, !.rating = rating,
                       !.strategy = active[InstallationOf[s]]]]
    /\ UNCHANGED <<telemetryVars, thumbs, recorded, reports, linked>>

Scored(id, otherwise) ==
    IF turns[id].strategy # None THEN turns[id].strategy ELSE otherwise

\* The number selects a turn, whose strategy counts if one scored it; or the
\* user is told that none was found; or the lookup fails and the submission
\* goes on without a turn.
Resolve(s) ==
    /\ command[s].step = "resolve"
    /\ \/ \E id \in BySequence(s, command[s].number) :
             command' = [command EXCEPT ![s].step = "record", ![s].turn = id,
                                        ![s].strategy = Scored(id, @)]
       \/ /\ BySequence(s, command[s].number) = {}
          /\ command' = [command EXCEPT ![s] = Idle]
       \/ command' = [command EXCEPT ![s].step = "record"]
    /\ UNCHANGED <<telemetryVars, thumbs, recorded, reports, spoken, linked>>

\* Mutant: a submission goes on although its row could not be written.
RecordOrNot(s) ==
    /\ command[s].step = "record"
    /\ \/ recorded' = recorded \cup
             {[session |-> s, turn |-> command[s].turn, rating |-> command[s].rating]}
       \/ UNCHANGED recorded
    /\ command' = [command EXCEPT ![s].step = "upsert"]
    /\ UNCHANGED <<telemetryVars, thumbs, reports, spoken, linked>>

\* Without its row the submission ends in an error.
Record(s) ==
    /\ command[s].step = "record"
    /\ \/ /\ recorded' = recorded \cup
                {[session |-> s, turn |-> command[s].turn, rating |-> command[s].rating]}
          /\ command' = [command EXCEPT ![s].step = "upsert"]
       \/ /\ command' = [command EXCEPT ![s] = Idle]
          /\ UNCHANGED recorded
    /\ UNCHANGED <<telemetryVars, thumbs, reports, spoken, linked>>

\* A thumb goes to the turn the command resolved; a note alone leaves the
\* thumb of the turn as it was.  A failure is logged.
Converges(c) == c.turn # NoTurn /\ c.rating # None

Converge(s) ==
    LET c == command[s]
    IN  /\ c.step = "upsert"
        /\ \/ Converges(c) /\ Upsert(c.turn, c.rating)
           \/ UNCHANGED thumbs
        /\ command' = [command EXCEPT ![s].step = "report"]
        /\ UNCHANGED <<telemetryVars, recorded, reports, spoken, linked>>

\* Mutant: the report goes to the strategy the session has now.
CreditedToTheActive(s) == active[InstallationOf[s]]

\* The turn's own strategy; that of the command's request when no turn was
\* resolved, or one that no strategy scored.
CreditedStrategy(s) == command[s].strategy

\* The last assistant segment of the conversation the command came with.
LastAnswer(s) ==
    LET served == {id \in DOMAIN turns : turns[id].session = s}
    IN  IF served = {} THEN NoTurn ELSE Max(served)

\* The conversation that goes along with the report.
TrainingDelta(s) ==
    IF /\ command[s].number \in {0, -1}
       /\ CreditedStrategy(s) \in HMMStrategies
       /\ s \in Trainable
    THEN LastAnswer(s) ELSE NoTurn

PolicyReport(s) ==
    [to |-> CreditedStrategy(s), session |-> s, turn |-> command[s].turn,
     rating |-> command[s].rating, delta |-> TrainingDelta(s)]

\* The report is sent from a goroutine and may be lost; the user is thanked.
Report(s) ==
    /\ command[s].step = "report"
    /\ \/ /\ CreditedStrategy(s) \in Reporters
          /\ reports' = reports \cup {PolicyReport(s)}
       \/ UNCHANGED reports
    /\ command' = [command EXCEPT ![s] = Idle]
    /\ UNCHANGED <<telemetryVars, thumbs, recorded, spoken, linked>>

----------------------------------------------------------------------------

Init ==
    /\ TelemetryInit
    /\ thumbs = [id \in Ids |-> None]
    /\ recorded = {}
    /\ reports = {}
    /\ command = [s \in Sessions |-> Idle]
    /\ spoken = 0
    /\ linked = [id \in Ids |-> {}]

Telemeter == TelemetryNext /\ UNCHANGED feedbackVars

Next ==
    \/ Telemeter
    \/ \E id \in DOMAIN turns, rating \in Thumbs : FollowLink(id, rating)
    \/ \E s \in Speakers :
          \/ \E number \in Numbers, rating \in Thumbs \cup {None} : Type(s, number, rating)
          \/ Resolve(s) \/ Record(s) \/ Converge(s) \/ Report(s)

Spec == Init /\ [][Next]_vars

----------------------------------------------------------------------------
(* Properties *)

Command == [step : {"idle", "resolve", "record", "upsert", "report"},
            number : Numbers \cup {0}, rating : Thumbs \cup {None}, turn : Ids \cup {NoTurn},
            strategy : Strategies \cup {None}]

TypeOK ==
    /\ TelemetryTypeOK
    /\ thumbs \in [Ids -> Thumbs \cup {None}]
    /\ recorded \subseteq [session : Sessions, turn : Ids \cup {NoTurn},
                           rating : Thumbs \cup {None}]
    /\ reports \subseteq [to : Strategies, session : Sessions, turn : Ids \cup {NoTurn},
                          rating : Thumbs \cup {None}, delta : Ids \cup {NoTurn}]
    /\ command \in [Sessions -> Command]
    /\ spoken \in 0 .. scenario.submissions
    /\ linked \in [Ids -> SUBSET Thumbs]

\* The thumb on a turn's page is one that somebody gave that turn, by its link
\* or by a submission that is on record, and a turn once given a thumb by its
\* link has one.  Whose thumb it is when several were given is for the order of
\* the upserts to say; that of a command may have failed, and its user was
\* thanked all the same.
ThumbsWereGiven ==
    \A id \in Ids :
        LET thumb == Page(id).rating
        IN  /\ thumb # None =>
                  \/ thumb \in linked[id]
                  \/ /\ id \in DOMAIN turns
                     /\ [session |-> turns[id].session, turn |-> id, rating |-> thumb] \in recorded
            /\ linked[id] # {} => thumb # None

\* What a sidecar is told of a turn is said of a turn of the session that
\* spoke, was recorded first, and goes to the strategy that scored the turn,
\* whichever strategy the installation has been switched to since.
CreditedToItsPolicy ==
    \A r \in reports :
        /\ [session |-> r.session, turn |-> r.turn, rating |-> r.rating] \in recorded
        /\ r.turn # NoTurn =>
              /\ turns[r.turn].session = r.session
              /\ turns[r.turn].strategy \in {None, r.to}

\* A sidecar hears only of turns its strategy scored.
UnscoredAreNotCredited ==
    \A r \in reports : r.turn # NoTurn => turns[r.turn].strategy = r.to

\* The conversation sent along with a rating is the one of the rated turn.
DeltaIsOfTheRatedTurn ==
    \A r \in reports : r.turn # NoTurn /\ r.delta # NoTurn => r.delta = r.turn
============================================================================
