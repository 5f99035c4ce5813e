--------------------------- MODULE SessionQueries ---------------------------
(***************************************************************************)
(* SessionQueryHandler, StreamQueryHandler and SystemQueryHandler          *)
(* (application/handlers/query_handlers.rs) and the reports that           *)
(* SessionService makes of their answers, over sessions that are values of *)
(* SessionAggregate: as a client uses them that goes through a search page *)
(* by page while sessions start, change and end, and as one that asks for  *)
(* a session together with its health.                                     *)
(*                                                                         *)
(* A command loads a session and saves what it has made of it an await     *)
(* later, over whatever another has saved meanwhile.                       *)
(*                                                                         *)
(* find_active_sessions (memory_repository.rs) gives the sessions in the   *)
(* order of a HashMap, which may change whenever a session is added.  The  *)
(* filter by state can only be for Active or be empty, since no other      *)
(* session gets this far, and the one by client info lets all through.     *)
(* Sorting by bytes or by the last update is as by streams; frames and     *)
(* bytes are left out, and so is the start of a stream, which no query     *)
(* tells from its creation.                                                *)
(***************************************************************************)
EXTENDS Naturals, Sequences, FiniteSetsExt, SequencesExt, TLC

CONSTANTS
  StreamId,     \* that a session may use
  MaxConcurrentStreams,
  NoStream,
  MaxSessions,  \* bound
  Eventful,     \* bound: sessions that expire, whose streams complete and whose commands overlap
  Sorts,        \* sort_by and sort_order
  Filters,      \* SessionFilters: created_after, and has_active_streams or "any"
  Limits,       \* of a query
  NotFound      \* ApplicationError::NotFound

VARIABLES
  session,  \* the repository: sessions as they were created, and whether each has expired
  order,    \* the order of the HashMap
  slow,     \* a command that has loaded a session and has yet to save it
  pager,    \* the search, and what was found so far
  visit     \* a session asked for, and then its health

vars == << session, order, slow, pager, visit >>

Aggregate == INSTANCE SessionAggregate

Idle == [at |-> "idle"]

\* Nobody asks for the events that a stored session still carries.
Stored(s) == Aggregate!AfterTakeEvents(s)

Init ==
  /\ session = << >>
  /\ order = << >>
  /\ slow = Idle
  /\ pager = Idle
  /\ visit = Idle

-----------------------------------------------------------------------------
(* What the handlers answer *)

\* InMemoryStreamRepository::find_session, of GetSessionQuery
GetSession(id) == IF id \in DOMAIN session THEN session[id].it ELSE NotFound

IsActive(id) == Aggregate!IsActive(session[id].it, session[id].expired)
Busy(id)     == Aggregate!StreamsIn(session[id].it, Aggregate!ActiveStates) # {}
Stats(id)    == session[id].it.stats

\* InMemoryStreamRepository::find_active_sessions
Active == SelectSeq(order, IsActive)

\* GetSessionHealthQuery, of StreamSession::health_check
Health(id) ==
  LET failed == Aggregate!StreamsIn(session[id].it, {"Failed"})
  IN  [is_healthy |-> IsActive(id) /\ failed = {}, is_expired |-> session[id].expired,
       active_streams |-> Aggregate!Count(session[id].it, Aggregate!ActiveStates),
       failed_streams |-> Cardinality(failed)]

\* GetStreamQuery
GetStream(id, stream) ==
  IF id \notin DOMAIN session \/ session[id].it.streams[stream] = "Absent" THEN NotFound
  ELSE session[id].it.streams[stream]

\* GetStreamsForSessionQuery
StreamsForSession(id, include_inactive) ==
  Aggregate!StreamsIn(session[id].it,
    IF include_inactive THEN Aggregate!Known ELSE Aggregate!ActiveStates)

\* matches_filters
Matches(id, filters) ==
  /\ id > filters.after
  /\ filters.busy = "any" \/ filters.busy = IF Busy(id) THEN "yes" ELSE "no"

\* sort_by is stable, and a comparison reversed leaves equals as they are.
Precedes(a, b, sort) ==
  LET key(id) == IF sort.field = "CreatedAt" THEN id ELSE Cardinality(StreamsForSession(id, TRUE))
  IN  IF sort.ascending THEN key(a) < key(b) ELSE key(a) > key(b)

Sorted(ids, sort) ==
  LET places == SetToSortSeq(DOMAIN ids, LAMBDA i, j :
                  \/ Precedes(ids[i], ids[j], sort)
                  \/ ~Precedes(ids[j], ids[i], sort) /\ i < j)
  IN  [i \in DOMAIN ids |-> ids[places[i]]]

Found(search) == Sorted(SelectSeq(Active, LAMBDA id : Matches(id, search.filters)), search.sort)

\* Mutant: skip goes one too far.
PageSkipping(all, offset, limit) ==
  IF offset = 0 THEN SubSeq(all, 1, Min({limit, Len(all)}))
  ELSE SubSeq(all, offset + 2, Min({offset + 1 + limit, Len(all)}))

\* skip and truncate
Page(all, offset, limit) == SubSeq(all, offset + 1, Min({offset + limit, Len(all)}))

\* GetActiveSessionsQuery: a page of them, and how many there are
ActiveSessions(offset, limit) ==
  [sessions |-> Page(Active, offset, limit), total_count |-> Len(Active)]

Sum(field, ids) == MapThenSumSet(LAMBDA id : Stats(id)[field], ids)

\* GetSystemStatsQuery: of active sessions only, which have not ended and
\* hence no duration.
SystemStats ==
  [total |-> Len(Active), active |-> Len(SelectSeq(Active, IsActive)),
   streams |-> Sum("total", ToSet(Active)), active_streams |-> Sum("active", ToSet(Active)),
   durations |-> Cardinality({id \in ToSet(Active) : session[id].it.state = "Completed"})]

\* SessionService::get_sessions_overview: totals of the page, not of all
Overview(limit) ==
  LET answer == ActiveSessions(0, limit)
      page   == ToSet(answer.sessions)
  IN  [total_count |-> answer.total_count, streams |-> Sum("total", page),
       healthy_count |-> Cardinality({id \in page : Health(id).is_healthy})]

-----------------------------------------------------------------------------
(* The clients; bound: one reads at a time *)

Search(sort, filters, limit) ==
  /\ pager = Idle /\ visit = Idle
  /\ pager' = [at |-> "paging", sort |-> sort, filters |-> filters, limit |-> limit,
               offset |-> 0, found |-> << >>, all |-> << >>,
               started |-> FALSE, changed |-> FALSE]
  /\ UNCHANGED << session, order, slow, visit >>

\* One SearchSessionsQuery, until the pages have reached total_count.
AskPage ==
  /\ pager.at = "paging"
  /\ LET all == Found(pager)
     IN  pager' = [pager EXCEPT
                     !.at = IF pager.offset + pager.limit >= Len(all) THEN "over" ELSE @,
                     !.offset = @ + pager.limit,
                     !.found = @ \o Page(all, pager.offset, pager.limit),
                     !.all = all]
  /\ UNCHANGED << session, order, slow, visit >>

\* SessionService::get_session_with_health: a copy of the session ...
AskSession(id) ==
  /\ visit = Idle /\ pager = Idle
  /\ GetSession(id) # NotFound
  /\ visit' = [at |-> "session", id |-> id, session |-> GetSession(id), overwritten |-> FALSE]
  /\ UNCHANGED << session, order, slow, pager >>

\* Mutant: a session is healthy as long as no stream has failed.
AskHealthOfStreams ==
  /\ visit.at = "session"
  /\ visit' = [visit EXCEPT !.at = "over"] @@
              [health |-> [Health(visit.id) EXCEPT !.is_healthy = Health(visit.id).failed_streams = 0]]
  /\ UNCHANGED << session, order, slow, pager >>

\* ... and the health of what it is by then
AskHealth ==
  /\ visit.at = "session"
  /\ visit' = [visit EXCEPT !.at = "over"] @@ [health |-> Health(visit.id)]
  /\ UNCHANGED << session, order, slow, pager >>

-----------------------------------------------------------------------------
(* Meanwhile *)

Note(what) == pager' = IF pager.at = "paging" THEN [pager EXCEPT ![what] = TRUE] ELSE pager

\* The map may have another order when it has grown.
StartSession ==
  /\ Len(session) < MaxSessions
  /\ session' = Append(session, [it |-> Stored(Aggregate!AfterActivate(Aggregate!NewSession)),
                                 expired |-> FALSE])
  /\ order' \in SetToSeqs(DOMAIN session')
  /\ Note("started")
  /\ UNCHANGED << slow, visit >>

Store(id, it) ==
  /\ session' = [session EXCEPT ![id].it = it]
  /\ Note("changed")
  /\ UNCHANGED order

\* A command has loaded a session and changes its copy, which it saves before
\* anyone else comes in, or later.  Bound: one at a time is so slow.
Change(id, to) ==
  \/ /\ Store(id, Stored(to))
     /\ UNCHANGED << slow, visit >>
  \/ /\ slow = Idle /\ id \in Eventful
     /\ slow' = [at |-> "loaded", id |-> id, from |-> session[id].it, to |-> Stored(to)]
     /\ UNCHANGED << session, order, pager, visit >>

\* save_session does not ask what the session is by now.
Save ==
  /\ slow # Idle
  /\ Store(slow.id, slow.to)
  /\ visit' = IF visit.at = "session" /\ visit.id = slow.id /\ session[slow.id].it # slow.from
              THEN [visit EXCEPT !.overwritten = TRUE] ELSE visit
  /\ slow' = Idle

CreateStream(id, stream) ==
  /\ Aggregate!MayCreateStream(session[id].it, session[id].expired, stream)
  /\ Change(id, Aggregate!AfterCreateStream(session[id].it, stream))

CompleteStream(id, stream) ==
  /\ session[id].it.streams[stream] \in Aggregate!ActiveStates
  /\ Change(id, Aggregate!AfterCompleteStream(session[id].it, stream))

CloseSession(id) ==
  /\ Aggregate!MayClose(session[id].it)
  /\ Change(id, Aggregate!AfterClose(session[id].it))

Expire(id) ==
  /\ IsActive(id)
  /\ session' = [session EXCEPT ![id].expired = TRUE]
  /\ Note("changed")
  /\ UNCHANGED << order, slow, visit >>

Next ==
  \/ \E sort \in Sorts, limit \in Limits, filters \in Filters : Search(sort, filters, limit)
  \/ AskPage \/ AskHealth \/ StartSession \/ Save
  \/ \E id \in DOMAIN session :
       \/ AskSession(id) \/ CloseSession(id)
       \/ \E stream \in StreamId : CreateStream(id, stream)
  \/ \E id \in DOMAIN session \cap Eventful :
       \/ Expire(id)
       \/ \E stream \in StreamId : CompleteStream(id, stream)

Spec == Init /\ [][Next]_vars

-----------------------------------------------------------------------------
(* Properties *)

TypeOK ==
  /\ Len(session) <= MaxSessions
  /\ IsInjective(order) /\ ToSet(order) = DOMAIN session

\* A search gone through page by page has found every match once and in order
\* if nothing changed meanwhile; a search by age, oldest first, also if
\* sessions were started.  (A session that ends moves others to a page that
\* has been read: they are missed.)
SearchFindsEachOnce ==
  /\ pager.at = "over" /\ ~pager.changed
  /\ ~pager.started \/ pager.sort = [field |-> "CreatedAt", ascending |-> TRUE]
  => pager.found = pager.all

\* A session and its health are two queries.  Whatever happened between them,
\* a healthy session was an active one when it was copied, and one that was
\* not has no active stream; unless a command that had loaded the session
\* before another changed it saved it in between, which may undo a close.
HealthFitsTheSession ==
  visit.at = "over" /\ ~visit.overwritten =>
    /\ visit.health.is_healthy => visit.session.state = "Active"
    /\ visit.session.state # "Active" => visit.health.active_streams = 0

\* Answers of one moment agree, though some count streams and others add up
\* the counters that the sessions keep: the streams of a session, one by one
\* and listed; the statistics and the overview of all sessions, all healthy.
AnswersAgree ==
  pager = Idle /\ visit = Idle =>
  /\ \A id \in DOMAIN session :
       /\ StreamsForSession(id, TRUE) = {s \in StreamId : GetStream(id, s) # NotFound}
       /\ Stats(id).total = Cardinality(StreamsForSession(id, TRUE))
       /\ IsActive(id) => Stats(id).active = Health(id).active_streams
  /\ SystemStats.total = SystemStats.active /\ SystemStats.durations = 0
  /\ LET all == Overview(SystemStats.total)
     IN  /\ all.streams = SystemStats.streams
         /\ all.healthy_count = all.total_count
=============================================================================
