-------------------------- MODULE PolicyDirectory --------------------------
(***************************************************************************)
(* The console's policies page: the table of the Themis policies with its  *)
(* search and page size, the sheet that registers a policy, the button     *)
(* that deletes one, and the panel that evaluates a payload.               *)
(* The BFF does not pass on Themis's next_cursor, so that the button for   *)
(* the next page does nothing when it is enabled: there is no later page.  *)
(***************************************************************************)
EXTENDS ConsolePage

CONSTANT PolicyIds   \* ids of policies, in the order Themis lists them

Last == CHOOSE x \in PolicyIds : \A y \in PolicyIds : y <= x

\* The search box is empty, or holds a text that the last policy contains.
Searches == {{}, {{Last}}}
Sizes == {1, 2}
Payloads == {"sample", "other", "", "not JSON"}

key == [search |-> ui.search, size |-> ui.size]

Init ==
  /\ db = [policies |-> PolicyIds \ {Last}, seq |-> 1]
  /\ ui = [search |-> {}, size |-> 2, open |-> FALSE, name |-> {}, said |-> {},
           wrote |-> 0, payload |-> "sample", jsonError |-> FALSE, verdict |-> {}]
  /\ query = [k \in {key} |-> Fetched(Unfetched)]
  /\ calls = <<>>

\* The BFF filters the first hundred policies when there is a search text, and
\* asks for one page otherwise.
Read(k) ==
  LET Listed(n) == {p \in db.policies : Cardinality({o \in db.policies : o <= p}) <= n}
  IN  [seq |-> db.seq,
       rows |-> IF k.search = {} THEN Listed(k.size) ELSE Listed(100) \cap UNION k.search]

rows == UNION {d.rows : d \in query[key].data}
View ==
  IF isError(query[key]) THEN "error"
  ELSE IF isLoading(query[key]) THEN "loading"
  ELSE IF rows = {} THEN "No results" ELSE "rows"

-----------------------------------------------------------------------------
\* Another search text or page size is another entry of the cache.
Browse(search, size) ==
  /\ Spend
  /\ <<search, size>> # <<ui.search, ui.size>>
  /\ ui' = [ui EXCEPT !.search = search, !.size = size, !.wrote = 0]
  /\ query' = Mounted([search |-> search, size |-> size])
  /\ UNCHANGED <<db, calls>>

setSearchQuery == \E s \in Searches : Browse(s, ui.size)
handlePageSizeChange == \E n \in Sizes : Browse(ui.search, n)

\* The sheet; a template fills in the name only when there is none.
Edit ==
  /\ Spend
  /\ \/ ui' = [ui EXCEPT !.open = ~ui.open]
     \/ ui.open /\ \E n \in PolicyIds : ui' = [ui EXCEPT !.name = {n}]
  /\ UNCHANGED <<db, query, calls>>

setTemplate ==
  /\ Spend
  /\ ui.open
  /\ ui.name = {}
  /\ ui' = [ui EXCEPT !.name = {Last}]
  /\ UNCHANGED <<db, query, calls>>

handleCreatePolicy ==
  /\ Spend
  /\ ui.open
  /\ ~isPending("create")
  /\ \E n \in ui.name : calls' = Sent("create", n)
  /\ UNCHANGED <<db, query, ui>>

\* The button of a row is disabled while the policy of the row is being deleted.
handleDelete(p) ==
  /\ Spend
  /\ View = "rows"
  /\ ~\E i \in DOMAIN calls : calls[i].op = "delete" /\ calls[i].arg = p
  /\ calls' = Sent("delete", p)
  /\ UNCHANGED <<db, query, ui>>

\* Clear also forgets the verdict, the sample does not.
EditPayload ==
  /\ Spend
  /\ \E p \in Payloads \ {ui.payload} :
       ui' = [ui EXCEPT !.payload = p, !.jsonError = FALSE,
                        !.verdict = IF p = "" THEN {} ELSE ui.verdict]
  /\ UNCHANGED <<db, query, calls>>

handleEvaluate ==
  /\ Spend
  /\ ~isPending("evaluate")
  /\ IF ui.payload \in {"", "not JSON"}
     THEN ui' = [ui EXCEPT !.jsonError = TRUE] /\ UNCHANGED calls
     ELSE ui' = [ui EXCEPT !.jsonError = FALSE] /\ calls' = Asked("evaluate", ui.payload)
  /\ UNCHANGED <<db, query>>

-----------------------------------------------------------------------------
With(S) == [policies |-> S, seq |-> db.seq + 1]

Engine(i) ==
  LET c == calls[i] IN
  \/ c.op = "create" /\ c.arg \notin db.policies /\ Handle(i, With(db.policies \cup {c.arg}))
  \/ c.op = "delete" /\ c.arg \in db.policies /\ Handle(i, With(db.policies \ {c.arg}))
  \/ Refuse(i)

Return(i) ==
  LET c == calls[i] IN
  /\ Succeeds(i)
  /\ calls' = Settled(i)
  /\ query' = IF c.op = "evaluate" THEN query ELSE Invalidated(key)
  /\ ui' = CASE c.op = "create" ->
                  [ui EXCEPT !.open = FALSE, !.name = {}, !.wrote = ShownFrom(key, @),
                             !.said = Tell("create", c.arg, TRUE)]
             [] c.op = "delete" ->
                  [ui EXCEPT !.wrote = ShownFrom(key, @), !.said = Tell("delete", c.arg, TRUE)]
             [] c.op = "evaluate" -> [ui EXCEPT !.verdict = {c.arg}]
  /\ UNCHANGED <<db, left>>

\* A delete that failed is reported as a success after the error, and the list
\* is fetched; other failures are only reported.
ReturnError(i) ==
  LET c == calls[i] IN
  /\ Fails(i)
  /\ calls' = Settled(i)
  /\ IF c.op = "delete"
     THEN /\ query' = Invalidated(key)
          /\ ui' = [ui EXCEPT !.said = Tell("delete", c.arg, c.arg \notin db.policies)]
     ELSE UNCHANGED <<query, ui>>
  /\ UNCHANGED <<db, left>>

\* The button of the header, which is disabled while a request is under way.
refresh == Refetch(key)

Next ==
  \/ setSearchQuery \/ handlePageSizeChange \/ Edit \/ setTemplate
  \/ handleCreatePolicy \/ EditPayload \/ handleEvaluate \/ refresh
  \/ \E p \in rows : handleDelete(p)
  \/ \E i \in DOMAIN calls : Engine(i) \/ Return(i) \/ ReturnError(i)
  \/ \E k \in DOMAIN query : Answer(k, Read(k)) \/ Deliver(k) \/ Lose(k)

-----------------------------------------------------------------------------
\* The list is at least as new as when the page was last told that a change was made,
\* until the operator searches for something else; except by an answer to its first
\* load read before that.  A deletion that failed and is reported as done is no change.
OwnChangesAreShown ==
  ~query[key].busy /\ ~query[key].failed => \A d \in query[key].data : d.seq >= ui.wrote
=============================================================================
