------------------------- MODULE IdentityDirectory -------------------------
(***************************************************************************)
(* The console's identities page: a table of the identities of Ego that is *)
(* searched, paged with cursors and refreshed, the sheet that invites an   *)
(* identity and the dialog that imports many.  A cursor stands for the     *)
(* identities after a number; it also says which search Ego issued it for. *)
(***************************************************************************)
EXTENDS ConsolePage
LOCAL INSTANCE FiniteSetsExt

CONSTANT Identities   \* identities, numbers in the order Ego lists them

\* The search box: no text, or the identities that contain it.
Searches == {{}, {{x \in Identities : x > Min(Identities)}}}
Sizes == {1, 2}
Start == [after |-> 0, search |-> {}]

keyOf(u) == [search |-> u.search, cursor |-> u.cursor, size |-> u.size]
key == keyOf(ui)

Init ==
  /\ db = [identities |-> Identities \ {Min(Identities)}, seq |-> 1]
  /\ ui = [input |-> {}, timer |-> TRUE, search |-> {}, cursor |-> Start, history |-> <<>>,
           size |-> 1, email |-> {}, csv |-> {}, checked |-> {}, said |-> {}, wrote |-> 0]
  /\ query = [k \in {key} |-> Fetched(Unfetched)]
  /\ calls = <<>>

\* GET /admin/identities: one page, and the cursor for the next if there is more.
Read(k) ==
  LET found == {x \in db.identities : k.cursor.after < x
                                      /\ \A S \in k.search : x \in S}
      page == {x \in found : Cardinality({y \in found : y <= x}) <= k.size}
      last == {x \in page : page # found /\ \A y \in page : y <= x}
  IN  [seq |-> db.seq, rows |-> page, next |-> {[after |-> x, search |-> k.search] : x \in last}]

Show(u) ==
  /\ ui' = u
  /\ query' = Mounted(keyOf(u))
  /\ UNCHANGED <<db, calls>>

\* A new search that keeps the pages seen so far.
FirstPageKeepingHistory(u) == [u EXCEPT !.cursor = Start, !.wrote = 0]

FirstPage(u) == [u EXCEPT !.cursor = Start, !.history = <<>>, !.wrote = 0]

-----------------------------------------------------------------------------
\* Each keystroke starts the 300 ms again.
setSearchQueryInput ==
  /\ Spend
  /\ \E s \in Searches \ {ui.input} : ui' = [ui EXCEPT !.input = s, !.timer = TRUE]
  /\ UNCHANGED <<db, query, calls>>

Debounced ==
  /\ ui.timer
  /\ Show(FirstPage([ui EXCEPT !.search = ui.input, !.timer = FALSE]))
  /\ UNCHANGED left

handlePageSizeChange ==
  /\ Spend
  /\ \E n \in Sizes \ {ui.size} : Show(FirstPage([ui EXCEPT !.size = n]))

handleNextPage ==
  /\ Spend
  /\ ~query[key].failed
  /\ \E d \in query[key].data : \E c \in d.next :
       Show([ui EXCEPT !.history = Append(ui.history, ui.cursor), !.cursor = c, !.wrote = 0])

handlePreviousPage ==
  /\ Spend
  /\ ~query[key].failed
  /\ ui.history # <<>>
  /\ LET n == Len(ui.history)
     IN  Show([ui EXCEPT !.history = SubSeq(@, 1, n - 1), !.cursor = ui.history[n], !.wrote = 0])

\* The fields of the invitation and of the import; the rows of the import that
\* have no address are not in the set.
Edit ==
  /\ Spend
  /\ \/ \E x \in Identities : ui' = [ui EXCEPT !.email = {x}]
     \/ \E S \in SUBSET Identities : S # ui.csv /\ ui' = [ui EXCEPT !.csv = S, !.checked = {}]
  /\ UNCHANGED <<db, query, calls>>

handleCreate ==
  /\ Spend
  /\ ~isPending("invite")
  /\ \E x \in ui.email : calls' = Sent("invite", x)
  /\ UNCHANGED <<db, query, ui>>

\* The textarea can be edited while the rows are validated or imported.
handleDryRun ==
  /\ Spend
  /\ ui.csv # {}
  /\ ~isPending("dry run") /\ ~isPending("import")
  /\ calls' = Asked("dry run", ui.csv)
  /\ ui' = [ui EXCEPT !.checked = {}]
  /\ UNCHANGED <<db, query>>

handleCommit ==
  /\ Spend
  /\ ui.csv # {}
  /\ ~isPending("import")
  /\ calls' = Sent("import", ui.csv)
  /\ UNCHANGED <<db, query, ui>>

-----------------------------------------------------------------------------
With(S) == [identities |-> S, seq |-> db.seq + 1]

\* There is no route for the invitation.  The import registers the rows one by
\* one; Ego refuses an address that is taken, and may fail at any.
Engine(i) ==
  LET c == calls[i] IN
  \/ c.op = "import" /\ \E S \in SUBSET (c.arg \ db.identities) :
       Handle(i, With(db.identities \cup S))
  \/ Refuse(i)

\* onSuccess of the import refetches what is on the screen and clears the text.
Return(i) ==
  LET c == calls[i] IN
  /\ Succeeds(i)
  /\ calls' = Settled(i)
  /\ IF c.op = "dry run" THEN ui' = [ui EXCEPT !.checked = {c.arg}] /\ UNCHANGED query
     ELSE /\ query' = [query EXCEPT ![key] = Fetched(query[key])]
          /\ ui' = [ui EXCEPT !.csv = {}, !.checked = {}, !.said = Tell("import", c.arg, TRUE),
                      !.wrote = ShownFrom(key, @)]
  /\ UNCHANGED <<db, left>>

\* An invitation that failed is reported as sent; the form is reset.
ReturnError(i) ==
  LET c == calls[i] IN
  /\ Fails(i)
  /\ calls' = Settled(i)
  /\ IF c.op = "invite"
     THEN /\ query' = Invalidated(key)
          /\ ui' = [ui EXCEPT !.email = {}, !.said = Tell("invite", c.arg, FALSE)]
     ELSE UNCHANGED <<query, ui>>
  /\ UNCHANGED <<db, left>>

\* The button of the header, which is disabled while a request is under way.
refresh == Refetch(key)

Next ==
  \/ setSearchQueryInput \/ Debounced \/ handlePageSizeChange \/ handleNextPage
  \/ handlePreviousPage \/ Edit \/ handleCreate \/ handleDryRun \/ handleCommit
  \/ refresh
  \/ \E i \in DOMAIN calls : Engine(i) \/ Return(i) \/ ReturnError(i)
  \/ \E k \in DOMAIN query : Answer(k, Read(k)) \/ Deliver(k) \/ Lose(k)

-----------------------------------------------------------------------------
\* The cursors that lead to the page shown start at the first page, were all
\* issued for the search that is shown, and each lies after the one before: no
\* page is skipped and Previous leads back through the pages that were seen.
PagesFollowEachOther ==
  LET chain == Append(ui.history, ui.cursor) IN
  /\ chain[1] = Start
  /\ \A k \in 2..Len(chain) : chain[k].search = ui.search /\ chain[k - 1].after < chain[k].after

\* The page of the list that is shown is at least as new as when it was told that an
\* import was made, until the operator turns to another; except by an answer to its
\* first load read before that.
OwnChangesAreShown ==
  ~query[key].busy /\ ~query[key].failed => \A d \in query[key].data : d.seq >= ui.wrote
=============================================================================
