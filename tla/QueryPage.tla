------------------------------ MODULE QueryPage ------------------------------
(***************************************************************************)
(* The query page (web/src/pages/QueryPage.tsx, searchQuery.ts) in front   *)
(* of GET /api/events: the user edits filters at any time, searches and    *)
(* loads more, while requests are on their way, rows are committed, the    *)
(* day changes and requests fail.                                          *)
(***************************************************************************)
EXTENDS RequestConversion, DateRange

CONSTANTS
  Candidates,       \* the events that writers may store
  Moments,          \* the instants at which the page is used
  DateRanges,       \* values of the date range control
  SearchQueries,    \* what is typed, as sequences of tokens
  PageSizes,        \* what is entered as the page size, as literals
  InitialPageSize,  \* 20 in the code
  MaxEdits          \* bound on the edits

(* A token of the search query; one without a ":" between a key and a      *)
(* value has an empty key or an empty value.                               *)
Token == [key : STRING, value : STRING]
SEARCH_KEYS == Columns \cup {"namespace"}

ASSUME PageAssumption ==
  /\ IsFiniteSet(Candidates)
  /\ Candidates \subseteq AuditEventRecord
  /\ Moments \subseteq Nat /\ ClockYears(Moments)
  /\ SearchQueries \subseteq Seq(Token) /\ <<>> \in SearchQueries
  /\ PageSizes \subseteq Literal /\ InitialPageSize \in Literal
  /\ MaxEdits \in Nat

VARIABLES
  rows,      \* committed rows
  now,       \* the clock of the browser
  listed,    \* the namespaces offered, a set with one element once loaded
  form,      \* the filters and the page size as they are on the screen
  shown,     \* the events on the screen
  token,     \* nextPageToken
  loading, error,
  inFlight,  \* requests sent and not settled, in the order of sending
  origin,    \* history: what was asked for the first page shown and for all
             \* pages shown, the rows that the first one saw, and whether
             \* the last one answers the last request
  edits

vars == <<rows, now, listed, form, shown, token, loading, error, inFlight,
          origin, edits>>
world == <<rows, now, listed>>

NoOrigin == [first |-> {}, asked |-> {}, seen |-> {}, current |-> FALSE]

Init ==
  /\ rows = {} /\ now \in Moments /\ listed = {}
  /\ form = [selected |-> <<>>, dateRange |-> PresetValue("today"),
             search |-> <<>>, pageSize |-> InitialPageSize]
  /\ shown = <<>> /\ token = {}
  /\ loading = FALSE /\ error = FALSE
  /\ inFlight = <<>>
  /\ origin = NoOrigin
  /\ edits = 0

-----------------------------------------------------------------------------
(* The world around the page. *)

Insert ==
  /\ \E e \in Candidates : FindByID(rows, e.id) = {} /\ rows' = rows \cup {e}
  /\ UNCHANGED <<now, listed, form, shown, token, loading, error, inFlight,
                 origin, edits>>

PassTime ==
  /\ now' \in {m \in Moments : m > now}
  /\ UNCHANGED <<rows, listed, form, shown, token, loading, error, inFlight,
                 origin, edits>>

(* The namespaces are asked for once; when that fails none is offered. *)
LoadNamespaces ==
  /\ listed = {}
  /\ \E db \in BOOLEAN : listed' = {HttpListNamespaces(rows, db).namespaces}
  /\ UNCHANGED <<rows, now, form, shown, token, loading, error, inFlight,
                 origin, edits>>

-----------------------------------------------------------------------------
(* Edits.  No control but the buttons is disabled while a request is out.  *)

Edit(new) ==
  /\ edits < MaxEdits /\ edits' = edits + 1
  /\ form' = new
  /\ UNCHANGED <<world, shown, token, loading, error, inFlight, origin>>

(* What stands at some of the places of a list, in their order. *)
AtPlaces(list, places) ==
  [n \in 1..Cardinality(places) |->
     list[CHOOSE i \in places : Cardinality({j \in places : j < i}) = n - 1]]

ToggleNamespace ==
  \E namespace \in UNION listed :
    Edit([form EXCEPT !.selected =
      IF namespace \in Elements(@)
      THEN AtPlaces(@, {i \in DOMAIN @ : @[i] # namespace})
      ELSE Append(@, namespace)])

EditFilters ==
  \/ \E v \in DateRanges : Edit([form EXCEPT !.dateRange = v])
  \/ \E s \in SearchQueries : Edit([form EXCEPT !.search = s])

(* The page size is shown with the events. *)
EditPageSize ==
  /\ shown # <<>>
  /\ \E n \in PageSizes : Edit([form EXCEPT !.pageSize = n])

-----------------------------------------------------------------------------
(* Searches. *)

(* The parameters, or {} when a token has no known key or no value. *)
ParseSearchQuery(tokens) ==
  IF \E t \in Elements(tokens) : t.key \notin SEARCH_KEYS \/ t.value = ""
  THEN {} ELSE {tokens}

ValuesOf(params, key) ==
  LET given == AtPlaces(params, {i \in DOMAIN params : params[i].key = key})
  IN [i \in DOMAIN given |-> given[i].value]

(* A preset is resolved when the request is built; an incomplete custom    *)
(* range is left out.                                                      *)
Parameters(params, namespaces, pageToken) ==
  LET range == ResolveDateRange(form.dateRange, now)
  IN [fields |-> [col \in Columns |-> ValuesOf(params, col)],
      namespace |-> namespaces,
      parsed |-> [p \in Parsed |->
        CASE p = "pageSize" -> <<form.pageSize>>
          [] p = "token" -> IF pageToken = {} THEN <<>>
                            ELSE <<Value(CHOOSE t \in pageToken : TRUE)>>
          [] OTHER -> IF Complete(form.dateRange) THEN <<Value(range[p])>>
                      ELSE <<>>]]

(* Mutation of BuildUrl: a search term for the namespace is left out.      *)
BuildUrlSelectedOnly(params, pageToken) ==
  Parameters(params, form.selected, pageToken)

(* The request for the filters of the moment: the namespaces searched for  *)
(* are added to those selected.                                            *)
BuildUrl(params, pageToken) ==
  Parameters(params, form.selected \o ValuesOf(params, "namespace"), pageToken)

(* search(): a query that does not parse only leaves its message. *)
StartSearch(append, pageToken) ==
  LET parsed == ParseSearchQuery(form.search)
  IN /\ \/ /\ parsed = {}
           /\ error' = TRUE
           /\ UNCHANGED <<loading, inFlight>>
        \/ \E params \in parsed :
             /\ error' = FALSE /\ loading' = TRUE
             /\ inFlight' = Append(
                  [i \in DOMAIN inFlight |-> [inFlight[i] EXCEPT !.newest = FALSE]],
                  [append |-> append, url |-> BuildUrl(params, pageToken),
                   form |-> form, at |-> now, newest |-> TRUE,
                   answer |-> {}, seen |-> {}])
     /\ origin' = [origin EXCEPT !.current = FALSE]
     /\ UNCHANGED <<world, form, shown, token, edits>>

ClickSearch == ~loading /\ StartSearch(FALSE, {})

(* Mutation of PressEnter: it does not ask whether a request is out.       *)
PressEnterAnyTime == Len(inFlight) < 2 /\ StartSearch(FALSE, {})

(* Ctrl or Cmd with Enter in the search field. *)
PressEnter == ~loading /\ StartSearch(FALSE, {})

ClickLoadMore ==
  /\ ~loading
  /\ shown # <<>> /\ token # {}
  /\ StartSearch(TRUE, token)

(* The handler answers from the rows committed so far. *)
Serve ==
  /\ \E i \in DOMAIN inFlight, db \in BOOLEAN :
       /\ inFlight[i].answer = {}
       /\ inFlight' = [inFlight EXCEPT
            ![i].answer = {HttpQueryEvents(rows, db, inFlight[i].url)},
            ![i].seen = rows]
  /\ UNCHANGED <<world, form, shown, token, loading, error, origin, edits>>

Descending(events) ==
  [n \in 1..Cardinality(events) |->
     CHOOSE e \in events : Cardinality({f \in events : f.id > e.id}) = n - 1]

Settle(i) ==
  /\ inFlight' = SubSeq(inFlight, 1, i - 1) \o SubSeq(inFlight, i + 1, Len(inFlight))
  /\ loading' = FALSE
  /\ UNCHANGED <<world, form, edits>>

(* Mutation of Show: Load more keeps the token it was sent with.           *)
ShowKeepingToken(i, answer) ==
  /\ shown' = IF inFlight[i].append THEN shown \o Descending(answer.events)
              ELSE Descending(answer.events)
  /\ token' = IF inFlight[i].append THEN token ELSE answer.next
  /\ UNCHANGED error

(* Mutation of Show: Load more puts its events on top.                     *)
ShowOnTop(i, answer) ==
  /\ shown' = IF inFlight[i].append THEN Descending(answer.events) \o shown
              ELSE Descending(answer.events)
  /\ token' = answer.next
  /\ UNCHANGED error

Show(i, answer) ==
  /\ shown' = IF inFlight[i].append THEN shown \o Descending(answer.events)
              ELSE Descending(answer.events)
  /\ token' = answer.next
  /\ UNCHANGED error

(* The answer is put on the screen, whatever the filters are by then.      *)
Receive(i) ==
  /\ \E answer \in inFlight[i].answer :
       /\ answer.status = "200"
       /\ Show(i, answer)
  /\ Settle(i)
  /\ LET sent == inFlight[i]
         asked == [form |-> sent.form, at |-> sent.at, url |-> sent.url]
     IN origin' =
          IF sent.append
          THEN [origin EXCEPT !.asked = @ \cup {asked}, !.current = sent.newest]
          ELSE [first |-> {asked}, asked |-> {asked}, seen |-> sent.seen,
                current |-> sent.newest]

(* Mutation of Fail: the loading flag is reset on success only.            *)
FailStillLoading(i) ==
  /\ error' = TRUE
  /\ inFlight' = SubSeq(inFlight, 1, i - 1) \o SubSeq(inFlight, i + 1, Len(inFlight))
  /\ UNCHANGED <<world, form, edits, shown, token, loading, origin>>

(* An error status, or no answer that can be read: what is shown stays. *)
Fail(i) ==
  /\ error' = TRUE
  /\ Settle(i)
  /\ UNCHANGED <<shown, token, origin>>

SettleAny == \E i \in DOMAIN inFlight : Receive(i) \/ Fail(i)

Next ==
  \/ Insert \/ PassTime \/ LoadNamespaces
  \/ ToggleNamespace \/ EditFilters \/ EditPageSize
  \/ ClickSearch \/ PressEnter \/ ClickLoadMore
  \/ Serve \/ SettleAny

Spec == Init /\ [][Next]_vars

(* A fetch is settled in the end, by an answer or by the browser. *)
FairSpec == Spec /\ WF_vars(SettleAny)

-----------------------------------------------------------------------------
Row(e) == CHOOSE row \in rows : row.id = e.id

(* What the user asks for: one of the namespaces, the first value given    *)
(* for each key, and an instant in the date range, if it is complete.      *)
Wanted(asked, row) ==
  LET tokens == asked.form.search
      range == ResolveDateRange(asked.form.dateRange, asked.at)
      namespaces == Elements(asked.form.selected)
                      \cup Elements(ValuesOf(tokens, "namespace"))
  IN /\ namespaces # {} => row.namespace \in namespaces
     /\ \A i \in DOMAIN tokens :
          \/ tokens[i].key = "namespace"
          \/ \E j \in 1..(i - 1) : tokens[j].key = tokens[i].key
          \/ row[tokens[i].key] = tokens[i].value
     /\ Complete(asked.form.dateRange) => row.timestamp \in range.from..range.to

(* Every event on the screen is one that the user asked for with a search  *)
(* or a Load more whose page is on the screen, although rows were          *)
(* committed, filters edited and answers lost in between                   *)
(* (QueryPage.tsx:45-86).                                                  *)
ShownIsWanted ==
  \A i \in DOMAIN shown : \E asked \in origin.asked : Wanted(asked, Row(shown[i]))

(* No event that all pages on the screen were asked for, and that was      *)
(* stored when the first of them was read, is missing: it is shown, or     *)
(* lies below the token of Load more.                                      *)
NothingSkipped ==
  \A row \in origin.seen :
    origin.asked # {} /\ (\A asked \in origin.asked : Wanted(asked, row)) =>
      \/ \E t \in token : row.id < t
      \/ \E i \in DOMAIN shown : shown[i].id = row.id

SameFilters(f, g) ==
  f.selected = g.selected /\ f.dateRange = g.dateRange /\ f.search = g.search

(* As long as no filter is edited, Load more continues the search: what    *)
(* the search asked for and its first page saw is shown or below the token *)
(* ("`page_token` (UUID v7 `id` of the last item seen)", "Returns a        *)
(* `next_page_token` when more results exist",                             *)
(* docs/superpowers/specs/2026-04-02-audit-log-design.md:167; "Load more"  *)
(* is 2026-04-28-embedded-spa-http-query-design.md:236).  The code         *)
(* resolves a preset anew for each page (QueryPage.tsx:49).                *)
LoadMoreContinues ==
  \A first \in origin.first, row \in origin.seen :
    /\ \A asked \in origin.asked : SameFilters(asked.form, first.form)
    /\ Wanted(first, row)
    => \/ \E t \in token : row.id < t
       \/ \E i \in DOMAIN shown : shown[i].id = row.id

(* Whatever is edited between the pages, the screen shows no event twice   *)
(* and stays in descending order: an old token with new filters still      *)
(* leads below everything shown (QueryPage.tsx:75-79,319).                 *)
ShownDescends ==
  \A i, j \in DOMAIN shown : i < j => shown[i].id > shown[j].id

(* The token is that of the last event shown, after failed requests and    *)
(* queries that do not parse too, so that Load more goes on where the      *)
(* screen ends (QueryPage.tsx:79-83).                                      *)
TokenIsLastShown ==
  token # {} => shown # <<>> /\ token = {shown[Len(shown)].id}

(* When nothing is loading and no error is shown, the screen answers the   *)
(* last request the user made, not an earlier one whose answer was late    *)
(* (QueryPage.tsx:75,99,178,320).                                          *)
ShownIsCurrent ==
  ~loading /\ ~error /\ origin.asked # {} => origin.current

(* The page does not stay disabled: a request that fails ends the loading  *)
(* as one that is answered does (QueryPage.tsx:82-86).                     *)
LoadingEnds == loading ~> ~loading
=============================================================================
