--------------------------- MODULE WatchlistProofs ---------------------------
(***************************************************************************)
(* Theorems about Watchlist and about the alerts of its stocks             *)
(* (AlertOutbox), for every number of stocks, groups, names, alerts,       *)
(* trading days, overlapping requests and runs, and crashes, and any sizes *)
(* of a batch and limits of attempts.                                      *)
(***************************************************************************)
EXTENDS Watchlist, AlertOutbox, TLAPS

\* A request that will put an entry into a group: the id of the group has been given, and
\* if the group is still there it is of the entry's market.
PlaceOK(x) ==
  x.step = "place" =>
    \A s \in DOMAIN x.loaded :
      /\ x.group[s] \notin fresh
      /\ x.group[s] \in DOMAIN groups => groups[x.group[s]].market = Market[s]

\* A request that will name a group keeps the market the group has.
NameOK(x) ==
  (x.step = "name" /\ x.id # NoGroup) =>
    /\ x.id \notin fresh
    /\ x.id \in DOMAIN groups => groups[x.id].market = x.market

\* Only patch_watch asks for a change of hands, and for one.
AskOK(x) == x.step = "place" => x.ask \in {{}, {TRUE}, {FALSE}}

RequestsOK ==
  /\ request = [r \in Requests |-> request[r]]
  /\ \A r \in Requests : AskOK(request[r]) /\ PlaceOK(request[r]) /\ NameOK(request[r])

\* Ids that have been given are not given again.
IdsOK == fresh \subseteq Groups /\ DOMAIN groups \subseteq Groups \ fresh

\* Entries are records, so that a column can be written.
ItemsOK ==
  \A s \in Watched : items[s] = [group |-> items[s].group, managed |-> items[s].managed]

WatchInv == IdsOK /\ ItemsOK /\ RequestsOK /\ TablesAgree

-----------------------------------------------------------------------------
\* Nothing that is spoken of moves.
LEMMA TablesStay ==
  ASSUME WatchInv, UNCHANGED <<items, groups, fresh, request>>
  PROVE  WatchInv'
  <1>1. \A r \in Requests : AskOK(request[r])' /\ PlaceOK(request[r])' /\ NameOK(request[r])'
    <2>1. \A r \in Requests : AskOK(request[r])'
      BY DEF WatchInv, RequestsOK, AskOK
    <2> QED BY <2>1 DEF WatchInv, RequestsOK, PlaceOK, NameOK
  <1>2. RequestsOK'
    BY <1>1 DEF WatchInv, RequestsOK
  <1> QED BY <1>2
        DEF WatchInv, IdsOK, ItemsOK, TablesAgree, GroupsFit, NamesUnique, Watched

\* A request goes on while the tables stay.
LEMMA RequestGoesOn ==
  ASSUME WatchInv, NEW r \in Requests, NEW x, Does(r, x), AskOK(x), PlaceOK(x), NameOK(x),
         UNCHANGED <<items, groups, fresh>>
  PROVE  WatchInv'
  <1>1. request' = [q \in Requests |-> request'[q]]
    BY DEF WatchInv, RequestsOK, Does
  <1>2. \A q \in Requests : request'[q] = IF q = r THEN x ELSE request[q]
    BY DEF WatchInv, RequestsOK, Does
  <1>3. \A q \in Requests : PlaceOK(request[q])' /\ NameOK(request[q])'
    BY <1>2 DEF WatchInv, RequestsOK, PlaceOK, NameOK
  <1>4. \A q \in Requests : AskOK(request[q])'
    BY <1>2 DEF WatchInv, RequestsOK, AskOK
  <1> QED BY <1>1, <1>3, <1>4
        DEF WatchInv, IdsOK, ItemsOK, RequestsOK, TablesAgree, GroupsFit, NamesUnique, Watched

\* What a request says stays true when the tables keep the markets of groups and give
\* no id back.
LEMMA RequestsStay ==
  ASSUME WatchInv, NEW r \in Requests, NEW x, Does(r, x), x.step \notin {"place", "name"},
         fresh' \subseteq fresh,
         \A g \in DOMAIN groups' : g \notin fresh =>
           g \in DOMAIN groups /\ groups'[g].market = groups[g].market,
         DOMAIN groups' \cap fresh' = {}
  PROVE  RequestsOK'
  <1>1. request' = [q \in Requests |-> request'[q]]
    BY DEF WatchInv, RequestsOK, Does
  <1>2. \A q \in Requests : request'[q] = IF q = r THEN x ELSE request[q]
    BY DEF WatchInv, RequestsOK, Does
  <1>3. AskOK(x)' /\ PlaceOK(x)' /\ NameOK(x)'
    BY DEF AskOK, PlaceOK, NameOK
  <1>4. ASSUME NEW q \in Requests \ {r}
        PROVE  AskOK(request[q])' /\ PlaceOK(request[q])' /\ NameOK(request[q])'
    <2>1. request'[q] = request[q] BY <1>2
    <2>2. AskOK(request[q]) /\ PlaceOK(request[q]) /\ NameOK(request[q])
      BY DEF WatchInv, RequestsOK
    <2>3. AskOK(request[q])'
      BY <2>1, <2>2 DEF AskOK
    <2> QED BY <2>1, <2>2, <2>3 DEF PlaceOK, NameOK
  <1>5. \A q \in Requests : AskOK(request[q])' /\ PlaceOK(request[q])' /\ NameOK(request[q])'
    <2>1. AskOK(request[r])' /\ PlaceOK(request[r])' /\ NameOK(request[r])'
      BY <1>2, <1>3 DEF AskOK, PlaceOK, NameOK
    <2> QED BY <1>4, <2>1
  <1> QED BY <1>1, <1>5 DEF RequestsOK

-----------------------------------------------------------------------------
\* No request is under way at first, and every table is empty.
LEMMA InitOK == ASSUME WatchInit PROVE WatchInv
  BY DEF WatchInit, WatchInv, IdsOK, ItemsOK, RequestsOK, AskOK, PlaceOK, NameOK, Waiting, TablesAgree,
         GroupsFit, NamesUnique, Watched

\* Steps of a request that only look, or that touch neither entries nor groups.
LEMMA LookingStep ==
  ASSUME WatchInv, NEW r \in Requests,
         \/ \E s \in Symbols : Ensure(r, s)
         \/ ListStock(r) \/ LookForItem(r) \/ Enqueue(r)
         \/ LookForMembers(r) \/ RequestDies(r)
  PROVE  WatchInv'
  <1> DEFINE Harmless(x) == x.step \notin {"place", "name"}
  <1>1. ASSUME NEW x, Does(r, x), Harmless(x), UNCHANGED <<items, groups, fresh>>
        PROVE  WatchInv'
    BY <1>1, RequestGoesOn DEF AskOK, PlaceOK, NameOK
  <1>2. CASE \E s \in Symbols : Ensure(r, s)
    BY <1>1, <1>2 DEF Ensure
  <1>3. CASE ListStock(r)
    <2>1. CASE Does(r, Waiting)
      BY <1>1, <1>3, <2>1 DEF ListStock, Waiting
    <2>2. CASE Does(r, [request[r] EXCEPT !.step = "look"])
      <3>1. Harmless([request[r] EXCEPT !.step = "look"])
        BY <1>3 DEF ListStock
      <3> QED BY <1>1, <1>3, <2>2, <3>1 DEF ListStock
    <2> QED BY <1>3, <2>1, <2>2 DEF ListStock
  <1>4. CASE LookForItem(r)
    <2> DEFINE x == [request[r] EXCEPT
           !.step = IF request[r].stock \in Watched THEN "enqueue" ELSE "insert"]
    <2>1. Harmless(x)
      BY <1>4 DEF LookForItem
    <2>2. Does(r, x) /\ UNCHANGED <<items, groups, fresh>>
      BY <1>4 DEF LookForItem
    <2> QED BY <1>1, <2>1, <2>2
  <1>5. CASE Enqueue(r)
    BY <1>1, <1>5 DEF Enqueue, Waiting
  <1>6. CASE LookForMembers(r)
    BY <1>1, <1>6 DEF LookForMembers
  <1>7. CASE RequestDies(r)
    BY <1>1, <1>7 DEF RequestDies, Waiting
  <1> QED BY <1>2, <1>3, <1>4, <1>5, <1>6, <1>7

\* What an entry is in, or may be put into, is of its market, and its id has been given.
LEMMA ValidFits ==
  ASSUME WatchAssumption, WatchInv, NEW s,
         NEW g, g \in Valid(Market[s]) \/ (s \in Watched /\ g = items[s].group)
  PROVE  g \notin fresh /\ (g \in DOMAIN groups => groups[g].market = Market[s])
  <1>1. CASE g = NoGroup
    BY <1>1 DEF WatchAssumption, WatchInv, IdsOK
  <1>2. CASE g # NoGroup
    <2>1. g \in DOMAIN groups /\ groups[g].market = Market[s]
      BY <1>2 DEF Valid, WatchInv, TablesAgree, GroupsFit
    <2> QED BY <2>1 DEF WatchInv, IdsOK
  <1> QED BY <1>1, <1>2

\* reorder_watchlist has validated the groups it writes.
LEMMA ReorderStep ==
  ASSUME WatchAssumption, WatchInv, NEW r \in Requests, Reorder(r)
  PROVE  WatchInv'
  <1>1. PICK moved \in SUBSET Watched \ {{}}, m \in Markets :
          /\ \A s \in moved : Market[s] = m
          /\ \E put \in [moved -> Valid(m)] :
               Does(r, [step |-> "place", loaded |-> Restrict(items, moved), group |-> put, ask |-> {}])
    BY DEF Reorder
  <1>2. PICK put \in [moved -> Valid(m)] :
          Does(r, [step |-> "place", loaded |-> Restrict(items, moved), group |-> put, ask |-> {}])
    BY <1>1
  <1> DEFINE x == [step |-> "place", loaded |-> Restrict(items, moved), group |-> put, ask |-> {}]
  <1>3. DOMAIN x.loaded = moved
    BY DEF Restrict
  <1>4. \A s \in moved : put[s] \in Valid(Market[s])
    BY <1>1, <1>2
  <1>5. \A s \in moved :
          put[s] \notin fresh /\ (put[s] \in DOMAIN groups => groups[put[s]].market = Market[s])
    BY <1>4, ValidFits
  <1>6. x.step = "place" /\ x.group = put /\ x.ask = {} /\ Does(r, x)
    BY <1>2
  <1> HIDE DEF x
  <1>7. AskOK(x) /\ PlaceOK(x) /\ NameOK(x)
    BY <1>3, <1>5, <1>6 DEF AskOK, PlaceOK, NameOK
  <1>8. UNCHANGED <<items, groups, fresh>>
    BY DEF Reorder
  <1> QED BY <1>6, <1>7, <1>8, RequestGoesOn

\* patch_watch has validated the group it writes, or leaves the entry in the one it is in.
LEMMA PatchStep ==
  ASSUME WatchAssumption, WatchInv, NEW r \in Requests, NEW s, Patch(r, s)
  PROVE  WatchInv'
  <1>1. s \in Watched /\ UNCHANGED <<items, groups, fresh>>
    BY DEF Patch
  <1>2. PICK g \in Valid(Market[s]) \cup {items[s].group}, ask \in {{}, {TRUE}, {FALSE}} :
          Does(r, [step |-> "place", loaded |-> Restrict(items, {s}),
                   group |-> [y \in {s} |-> g], ask |-> ask])
    BY DEF Patch
  <1> DEFINE x == [step |-> "place", loaded |-> Restrict(items, {s}),
                   group |-> [y \in {s} |-> g], ask |-> ask]
  <1>3. DOMAIN x.loaded = {s}
    BY DEF Restrict
  <1>4. g \notin fresh /\ (g \in DOMAIN groups => groups[g].market = Market[s])
    BY <1>1, <1>2, ValidFits
  <1>5. x.step = "place" /\ x.group[s] = g /\ x.ask = ask /\ Does(r, x)
    BY <1>2
  <1> HIDE DEF x
  <1>6. AskOK(x) /\ PlaceOK(x) /\ NameOK(x)
    BY <1>2, <1>3, <1>4, <1>5 DEF AskOK, PlaceOK, NameOK
  <1> QED BY <1>1, <1>5, <1>6, RequestGoesOn

\* create_group and rename_group have looked at the group they name.
LEMMA LookForNameStep ==
  ASSUME WatchInv, NEW r \in Requests, LookForName(r)
  PROVE  WatchInv'
  <1>1. PICK n \in Names, m \in Markets, g \in {NoGroup} \cup DOMAIN groups :
          /\ IF g = NoGroup THEN fresh # {} ELSE groups[g].market = m
          /\ Does(r, [step |-> "name", id |-> g, market |-> m, name |-> n])
    BY DEF LookForName
  <1> DEFINE x == [step |-> "name", id |-> g, market |-> m, name |-> n]
  <1>2. AskOK(x) /\ PlaceOK(x) /\ NameOK(x)
    BY <1>1 DEF AskOK, PlaceOK, NameOK, WatchInv, IdsOK
  <1>3. UNCHANGED <<items, groups, fresh>>
    BY DEF LookForName
  <1> HIDE DEF x
  <1>4. Does(r, x) BY <1>1 DEF x
  <1> QED BY <1>2, <1>3, <1>4, RequestGoesOn

-----------------------------------------------------------------------------
\* A new entry is in no group.
LEMMA InsertStep ==
  ASSUME WatchInv, NEW r \in Requests, InsertItem(r)
  PROVE  WatchInv'
  <1> DEFINE x == [request[r] EXCEPT !.step = "enqueue"]
  <1>1. Does(r, x) /\ UNCHANGED <<groups, fresh>>
    BY DEF InsertItem
  <1>2. x.step \notin {"place", "name"}
    BY DEF InsertItem
  <1>3. RequestsOK'
    BY <1>1, <1>2, RequestsStay DEF WatchInv, IdsOK
  <1>4. GroupsFit'
    BY DEF InsertItem, Put, NewItem, WatchInv, TablesAgree, GroupsFit, Watched
  <1>5. NamesUnique' /\ IdsOK'
    BY <1>1 DEF WatchInv, TablesAgree, NamesUnique, IdsOK
  <1>6. ItemsOK'
    BY DEF InsertItem, Put, NewItem, WatchInv, ItemsOK, Watched
  <1> QED BY <1>3, <1>4, <1>5, <1>6 DEF WatchInv, TablesAgree

\* What a request writes over an entry fits, unless its group has gone.
LEMMA CommitPlaceStep ==
  ASSUME WatchInv, NEW r \in Requests, CommitPlace(r)
  PROVE  WatchInv'
  <1> DEFINE x == request[r]
  <1>1. x.step = "place" /\ Does(r, Waiting) /\ UNCHANGED <<groups, fresh>>
    BY DEF CommitPlace
  <1>2. RequestsOK'
    BY <1>1, RequestsStay DEF WatchInv, IdsOK, Waiting
  <1>3. GroupsFit'
    <2>1. CASE ~GroupThere(x)
      BY <1>1, <2>1 DEF CommitPlace, WatchInv, TablesAgree, GroupsFit, Watched
    <2>2. CASE GroupThere(x)
      <3>1. items' = [s \in Watched |->
               IF s \in DOMAIN x.loaded THEN Changed(items[s], x, s) ELSE items[s]]
        BY <2>2 DEF CommitPlace
      <3> SUFFICES ASSUME NEW s \in Watched, items'[s].group # NoGroup
                   PROVE  /\ items'[s].group \in DOMAIN groups
                          /\ groups[items'[s].group].market = Market[s]
        BY <1>1, <3>1 DEF GroupsFit, Watched
      <3>2. CASE items'[s].group = items[s].group
        BY <3>2 DEF WatchInv, TablesAgree, GroupsFit
      <3>3. CASE items'[s].group # items[s].group
        <4>1. s \in DOMAIN x.loaded /\ items'[s] = Changed(items[s], x, s)
          BY <3>1, <3>3
        <4>2. items'[s].group = x.group[s] /\ Regroups(x, s)
          BY <3>3, <4>1 DEF Changed
        <4>3. x.group[s] \in DOMAIN groups
          BY <2>2, <4>1, <4>2 DEF GroupThere
        <4> QED BY <1>1, <4>1, <4>2, <4>3 DEF WatchInv, RequestsOK, PlaceOK
      <3> QED BY <3>2, <3>3
    <2> QED BY <2>1, <2>2
  <1>4. NamesUnique' /\ IdsOK'
    BY <1>1 DEF WatchInv, TablesAgree, NamesUnique, IdsOK
  <1>5. ItemsOK'
    BY DEF CommitPlace, Changed, WatchInv, ItemsOK, Watched
  <1> QED BY <1>2, <1>3, <1>4, <1>5 DEF WatchInv, TablesAgree

\* A removed entry leaves the requests that were to write it.
LEMMA RemoveStep ==
  ASSUME WatchInv, NEW s \in Symbols, RemoveItem(s)
  PROVE  WatchInv'
  <1>1. UNCHANGED <<groups, fresh>> /\ items' = Restrict(items, Watched \ {s})
    BY DEF RemoveItem
  <1>2. ASSUME NEW r \in Requests
        PROVE  PlaceOK(request[r])' /\ NameOK(request[r])'
    <2>1. \/ request'[r] = Waiting
          \/ request'[r] = request[r]
          \/ /\ request[r].step = "place"
             /\ request'[r] = [request[r] EXCEPT !.loaded = Restrict(@, DOMAIN @ \ {s})]
      BY DEF RemoveItem
    <2>2. PlaceOK(request[r]) /\ NameOK(request[r])
      BY DEF WatchInv, RequestsOK
    <2>3. CASE request'[r] = Waiting
      BY <2>3 DEF Waiting, PlaceOK, NameOK
    <2>4. CASE request'[r] = request[r]
      BY <1>1, <2>2, <2>4 DEF PlaceOK, NameOK
    <2>5. CASE /\ request[r].step = "place"
               /\ request'[r] = [request[r] EXCEPT !.loaded = Restrict(@, DOMAIN @ \ {s})]
      <3>1. request'[r].step = "place" /\ request'[r].group = request[r].group
        BY <2>5
      <3>2. DOMAIN request'[r].loaded \subseteq DOMAIN request[r].loaded
        BY <2>5 DEF Restrict
      <3> QED BY <1>1, <2>2, <2>5, <3>1, <3>2 DEF PlaceOK, NameOK
    <2> QED BY <2>1, <2>3, <2>4, <2>5
  <1>3. request' = [r \in Requests |-> request'[r]]
    BY DEF RemoveItem
  <1>4. ASSUME NEW r \in Requests PROVE AskOK(request[r])'
    <2>1. AskOK(request[r])
      BY DEF WatchInv, RequestsOK
    <2>2. \/ request'[r] = Waiting
          \/ request'[r] = request[r]
          \/ request'[r].step = request[r].step /\ request'[r].ask = request[r].ask
      BY DEF RemoveItem
    <2>3. CASE request'[r] = Waiting
      BY <2>3 DEF AskOK, Waiting
    <2>4. CASE request'[r] = request[r]
      BY <2>1, <2>4 DEF AskOK
    <2>5. CASE request'[r].step = request[r].step /\ request'[r].ask = request[r].ask
      BY <2>1, <2>5 DEF AskOK
    <2> QED BY <2>2, <2>3, <2>4, <2>5
  <1>5. GroupsFit'
    BY <1>1 DEF Restrict, WatchInv, TablesAgree, GroupsFit, Watched
  <1>6. NamesUnique' /\ IdsOK'
    BY <1>1 DEF WatchInv, TablesAgree, NamesUnique, IdsOK
  <1>7. ItemsOK'
    BY <1>1 DEF Restrict, WatchInv, ItemsOK, Watched
  <1> QED BY <1>2, <1>3, <1>5, <1>6, <1>7, <1>4 DEF WatchInv, RequestsOK, TablesAgree

\* A name is given to a new group, or to the group it was asked for, if nobody else in
\* the market has it.
LEMMA CommitNameStep ==
  ASSUME WatchAssumption, WatchInv, NEW r \in Requests, CommitName(r)
  PROVE  WatchInv'
  <1> DEFINE x == request[r]
             new == x.id = NoGroup
             g == IF new THEN CHOOSE i \in fresh : TRUE ELSE x.id
             row == [market |-> x.market, name |-> x.name]
  <1>1. x.step = "name" /\ Does(r, Waiting) /\ UNCHANGED items /\ (new => fresh # {})
    BY DEF CommitName
  <1>2. NameOK(x)
    BY DEF WatchInv, RequestsOK
  <1>3. CASE ~(NameFree(x) /\ (new \/ g \in DOMAIN groups))
    <2>1. UNCHANGED <<groups, fresh>>
      BY <1>3 DEF CommitName
    <2> QED BY <1>1, <2>1, RequestGoesOn DEF Waiting, AskOK, PlaceOK, NameOK
  <1>4. CASE NameFree(x) /\ (new \/ g \in DOMAIN groups)
    <2>1. groups' = Put(groups, g, row) /\ fresh' = fresh \ {g}
      BY <1>4 DEF CommitName
    <2>2. new => g \in fresh
      BY <1>1
    <2>3. g \in Groups
      BY <1>4, <2>2 DEF WatchInv, IdsOK
    <2>4. ~new => g \in DOMAIN groups /\ groups[g].market = x.market
      BY <1>1, <1>2, <1>4 DEF NameOK
    <2> HIDE DEF g, row
    <2>5. DOMAIN groups' = DOMAIN groups \cup {g}
      BY <2>1 DEF Put
    <2>6. \A h \in DOMAIN groups' : groups'[h] = IF h = g THEN row ELSE groups[h]
      BY <2>1, <2>5 DEF Put
    <2>7. IdsOK'
      BY <2>1, <2>3, <2>5 DEF WatchInv, IdsOK
    <2>8. \A h \in DOMAIN groups' : h \notin fresh =>
            h \in DOMAIN groups /\ groups'[h].market = groups[h].market
      <3> SUFFICES ASSUME NEW h \in DOMAIN groups', h \notin fresh
                   PROVE  h \in DOMAIN groups /\ groups'[h].market = groups[h].market
        OBVIOUS
      <3>1. CASE h = g
        BY <2>2, <2>4, <2>6, <3>1 DEF row
      <3>2. CASE h # g
        BY <2>5, <2>6, <3>2
      <3> QED BY <3>1, <3>2
    <2>9. RequestsOK'
      <3>1. fresh' \subseteq fresh
        BY <2>1
      <3>2. DOMAIN groups' \cap fresh' = {}
        BY <2>7 DEF IdsOK
      <3>3. Waiting.step \notin {"place", "name"}
        BY DEF Waiting
      <3> QED BY <1>1, <2>8, <3>1, <3>2, <3>3, RequestsStay
    <2>10. NamesUnique'
      <3> SUFFICES ASSUME NEW h \in DOMAIN groups', NEW k \in DOMAIN groups',
                          groups'[h] = groups'[k], h # k
                   PROVE  FALSE
        BY DEF NamesUnique
      <3>1. CASE h # g /\ k # g
        BY <2>5, <2>6, <3>1 DEF WatchInv, TablesAgree, NamesUnique
      <3>2. ASSUME NEW i \in DOMAIN groups, i # g, groups[i] = row
            PROVE  FALSE
        <4>1. i \in Named(x.market, x.name)
          BY <3>2 DEF Named, row
        <4>2. i = x.id
          BY <1>4, <4>1 DEF NameFree
        <4>3. new
          BY <3>2, <4>2 DEF g
        <4> QED BY <3>2, <4>2, <4>3 DEF WatchInv, IdsOK, WatchAssumption
      <3>3. CASE h = g
        BY <2>5, <2>6, <3>2, <3>3
      <3>4. CASE k = g
        BY <2>5, <2>6, <3>2, <3>4
      <3> QED BY <3>1, <3>3, <3>4
    <2>11. GroupsFit'
      <3> SUFFICES ASSUME NEW s \in Watched, items[s].group # NoGroup
                   PROVE  /\ items[s].group \in DOMAIN groups'
                          /\ groups'[items[s].group].market = Market[s]
        BY <1>1 DEF GroupsFit, Watched
      <3>1. items[s].group \in DOMAIN groups /\ groups[items[s].group].market = Market[s]
        BY DEF WatchInv, TablesAgree, GroupsFit
      <3>2. items[s].group \notin fresh
        BY <3>1 DEF WatchInv, IdsOK
      <3> QED BY <2>5, <2>8, <3>1, <3>2
    <2>12. ItemsOK'
      BY <1>1 DEF WatchInv, ItemsOK, Watched
    <2> QED BY <2>7, <2>9, <2>10, <2>11, <2>12 DEF WatchInv, TablesAgree
  <1> QED BY <1>3, <1>4

\* A group goes once nobody is left in it.
LEMMA CommitDeleteStep ==
  ASSUME WatchInv, NEW r \in Requests, CommitDelete(r)
  PROVE  WatchInv'
  <1> DEFINE x == request[r]
  <1>1. Does(r, Waiting) /\ UNCHANGED fresh
    BY DEF CommitDelete
  <1>2. CASE ~(NobodyLeft(x) /\ x.id \in DOMAIN groups)
    <2>1. UNCHANGED <<groups, items>>
      BY <1>2 DEF CommitDelete
    <2> QED BY <1>1, <2>1, RequestGoesOn DEF Waiting, AskOK, PlaceOK, NameOK
  <1>3. CASE NobodyLeft(x) /\ x.id \in DOMAIN groups
    <2>1. groups' = Restrict(groups, DOMAIN groups \ {x.id})
      BY <1>3 DEF CommitDelete
    <2>2. items' = [s \in Watched |->
            IF s \in x.loaded THEN [items[s] EXCEPT !.group = NoGroup] ELSE items[s]]
      BY <1>3 DEF CommitDelete
    <2>3. DOMAIN groups' = DOMAIN groups \ {x.id}
      BY <2>1 DEF Restrict
    <2>4. \A g \in DOMAIN groups' : groups'[g] = groups[g]
      BY <2>1, <2>3 DEF Restrict
    <2>5. IdsOK'
      BY <1>1, <2>3 DEF WatchInv, IdsOK
    <2>6. NamesUnique'
      BY <2>3, <2>4 DEF WatchInv, TablesAgree, NamesUnique
    <2>7. RequestsOK'
      <3>1. DOMAIN groups' \cap fresh' = {}
        BY <2>5 DEF IdsOK
      <3>2. Waiting.step \notin {"place", "name"}
        BY DEF Waiting
      <3> QED BY <1>1, <2>3, <2>4, <3>1, <3>2, RequestsStay
    <2>8. GroupsFit'
      <3> SUFFICES ASSUME NEW s \in Watched, items'[s].group # NoGroup
                   PROVE  /\ items'[s].group \in DOMAIN groups'
                          /\ groups'[items'[s].group].market = Market[s]
        BY <2>2 DEF GroupsFit, Watched
      <3>1. s \notin x.loaded
        BY <2>2 DEF WatchInv, ItemsOK
      <3>2. items'[s] = items[s]
        BY <2>2, <3>1
      <3>3. items[s].group # x.id
        BY <1>3, <3>1 DEF NobodyLeft
      <3> QED BY <2>3, <2>4, <3>2, <3>3 DEF WatchInv, TablesAgree, GroupsFit
    <2>9. ItemsOK'
      <3> SUFFICES ASSUME NEW s \in Watched
                   PROVE  items'[s] = [group |-> items'[s].group, managed |-> items'[s].managed]
        BY <2>2 DEF ItemsOK, Watched
      <3>1. items[s] = [group |-> items[s].group, managed |-> items[s].managed]
        BY DEF WatchInv, ItemsOK
      <3>2. [items[s] EXCEPT !.group = NoGroup] = [group |-> NoGroup, managed |-> items[s].managed]
        BY <3>1
      <3> QED BY <2>2, <3>1, <3>2
    <2> QED BY <2>5, <2>6, <2>7, <2>8, <2>9 DEF WatchInv, TablesAgree
  <1> QED BY <1>2, <1>3

\* Every step of a request preserves the invariant.
LEMMA WatchKept ==
  ASSUME WatchAssumption, WatchInv, [WatchNext]_watchVars
  PROVE  WatchInv'
  <1>1. CASE UNCHANGED watchVars
    BY <1>1, TablesStay DEF watchVars
  <1> QED BY <1>1, LookingStep, ReorderStep, PatchStep, LookForNameStep, InsertStep,
             CommitPlaceStep, RemoveStep, CommitNameStep, CommitDeleteStep DEF WatchNext

\* The tables and what requests are about to write to them agree at all times.
THEOREM WatchlistCorrect ==
  ASSUME WatchAssumption PROVE WatchSpec => []WatchInv
  <1>1. WatchInit => WatchInv
    BY InitOK
  <1>2. WatchInv /\ [WatchNext]_watchVars => WatchInv'
    BY WatchKept
  <1> QED BY <1>1, <1>2, PTL DEF WatchSpec

\* Every entry is in a group that exists and is of its market, and no two groups of a
\* market have one name, however many requests overlap.
THEOREM WatchTablesAgree ==
  ASSUME WatchAssumption PROVE WatchSpec => []TablesAgree
  <1>1. WatchInv => TablesAgree
    BY DEF WatchInv
  <1> QED BY <1>1, WatchlistCorrect, PTL

-----------------------------------------------------------------------------
\* A truth value that does not hold is FALSE.
LEMMA NotAsked ==
  ASSUME NEW a, NEW v, ~(TRUE \in a), v = (TRUE \in a)
  PROVE  v = FALSE
  <1>1. ~v
    OBVIOUS
  <1>2. v \in BOOLEAN
    OBVIOUS
  <1> QED BY <1>1, <1>2

\* The write of a request hands an entry over only if the request asked for it.
LEMMA WrittenAsAsked ==
  ASSUME WatchInv, NEW r \in Requests, CommitPlace(r), NEW s \in Watched,
         items'[s].managed # items[s].managed
  PROVE  request'[r] = Waiting /\ AsksFor(request[r], s, items'[s].managed)
  <1> DEFINE x == request[r]
  <1>1. x.step = "place"
    BY DEF CommitPlace
  <1>2. x.ask \in {{}, {TRUE}, {FALSE}}
    BY <1>1 DEF WatchInv, RequestsOK, AskOK
  <1>3. items' = [t \in Watched |->
          IF t \in DOMAIN x.loaded THEN Changed(items[t], x, t) ELSE items[t]]
    BY DEF CommitPlace
  <1>4. s \in DOMAIN x.loaded /\ items'[s] = Changed(items[s], x, s)
    BY <1>3
  <1>5. items'[s].managed = IF Hands(x, s) THEN TRUE \in x.ask ELSE items[s].managed
    BY <1>4 DEF Changed
  <1>6. x.ask # {} /\ items'[s].managed = (TRUE \in x.ask)
    BY <1>5 DEF Hands
  <1>7. request'[r] = Waiting
    BY DEF CommitPlace, Does, WatchInv, RequestsOK
  <1> DEFINE asked == x.ask
  <1>8. CASE asked = {TRUE}
    <2>1. items'[s].managed = TRUE
      BY <1>6, <1>8
    <2> QED BY <1>1, <1>4, <1>8, <1>7, <2>1 DEF AsksFor
  <1>9. CASE asked = {FALSE}
    <2>1. TRUE \notin {FALSE}
      OBVIOUS
    <2>2. ~(TRUE \in x.ask)
      BY <1>9, <2>1
    <2>3. items'[s].managed = FALSE
      BY <1>6, <2>2, NotAsked
    <2> QED BY <1>1, <1>4, <1>9, <1>7, <2>3 DEF AsksFor
  <1> QED BY <1>2, <1>6, <1>8, <1>9

\* Whether an entry is handed to the AI changes only at the COMMIT of a request for that
\* entry that asked for it, whatever other requests wrote over the entry from what they had loaded before.
LEMMA PatchAlways ==
  ASSUME WatchAssumption PROVE WatchInit /\ [][WatchNext]_watchVars => OnlyPatchDecides
  <1> DEFINE Asked(s) ==
        \E r \in Requests : request'[r] = Waiting /\ AsksFor(request[r], s, items'[s].managed)
  <1>1. ASSUME WatchInv, [WatchNext]_watchVars, NEW s \in Watched \cap DOMAIN items',
               items'[s].managed # items[s].managed
        PROVE  Asked(s)
    <2>1. CASE UNCHANGED items
      BY <1>1, <2>1
    <2>2. ASSUME NEW r \in Requests, CommitPlace(r) PROVE Asked(s)
      BY <1>1, <2>2, WrittenAsAsked
    <2>3. ASSUME NEW r \in Requests, InsertItem(r) PROVE Asked(s)
      BY <1>1, <2>3 DEF InsertItem, Put, Watched
    <2>4. ASSUME NEW r \in Requests, CommitDelete(r) PROVE Asked(s)
      <3>1. \/ items' = items
            \/ items'[s] = [items[s] EXCEPT !.group = NoGroup]
            \/ items'[s] = items[s]
        BY <1>1, <2>4 DEF CommitDelete, Watched
      <3>2. items[s] = [group |-> items[s].group, managed |-> items[s].managed]
        BY <1>1 DEF WatchInv, ItemsOK
      <3> QED BY <1>1, <3>1, <3>2
    <2>5. ASSUME NEW t \in Symbols, RemoveItem(t) PROVE Asked(s)
      BY <1>1, <2>5 DEF RemoveItem, Restrict, Watched
    <2>6. ASSUME NEW r \in Requests,
                 \/ \E t \in Symbols : Ensure(r, t) \/ Patch(r, t)
                 \/ ListStock(r) \/ LookForItem(r) \/ Enqueue(r) \/ Reorder(r)
                 \/ LookForName(r) \/ CommitName(r) \/ LookForMembers(r) \/ RequestDies(r)
          PROVE  UNCHANGED items
      BY <2>6 DEF Ensure, Patch, ListStock, LookForItem, Enqueue, Reorder, LookForName, CommitName,
                  LookForMembers, RequestDies
    <2>7. CASE WatchNext
      BY <2>1, <2>2, <2>3, <2>4, <2>5, <2>6, <2>7 DEF WatchNext
    <2> QED BY <1>1, <2>1, <2>7 DEF watchVars
  <1>2. ASSUME WatchInv, [WatchNext]_watchVars
        PROVE  [\A s \in Watched \cap DOMAIN items' :
                  items'[s].managed # items[s].managed =>
                    \E r \in Requests : request'[r] = Waiting
                                        /\ AsksFor(request[r], s, items'[s].managed)]_watchVars
    BY <1>1, <1>2
  <1>3. WatchInit => WatchInv
    BY InitOK
  <1>4. WatchInv /\ [WatchNext]_watchVars => WatchInv'
    BY WatchKept
  <1> QED BY <1>2, <1>3, <1>4, PTL DEF OnlyPatchDecides

\* No request undoes what another asked for (OnlyPatchDecides), however many overlap.
THEOREM PatchDecides ==
  ASSUME WatchAssumption PROVE WatchSpec => OnlyPatchDecides
  BY PatchAlways, PTL DEF WatchSpec

-----------------------------------------------------------------------------
(* Types: what a request remembers is a row of the tables, or was one. *)

\* A stock that is looked for is one that can be listed, and then is.
StockOK(x) ==
  /\ x.step \in {"search", "look", "insert", "enqueue"} => x.stock \in Symbols
  /\ x.step \in {"look", "insert", "enqueue"} => x.stock \in listed

\* What a request will write fits the columns.
WritesOK(x) ==
  /\ x.step = "place" => \A s \in DOMAIN x.loaded : x.group[s] \in Groups \cup {NoGroup}
  /\ x.step = "name" => x.market \in Markets /\ x.name \in Names /\ x.id \in Groups \cup {NoGroup}

Steps == {"none", "search", "look", "insert", "enqueue", "place", "name", "ungroup"}

Remembers(x) == x.step \in Steps /\ StockOK(x) /\ WritesOK(x)

WatchTypes ==
  /\ WatchTypeOK
  /\ request = [r \in Requests |-> request[r]]
  /\ \A r \in Requests : Remembers(request[r])

\* A request goes on, and the tables keep their types.
LEMMA TypesGoOn ==
  ASSUME WatchTypes, NEW r \in Requests, NEW x, Does(r, x), Remembers(x)',
         listed \subseteq listed', listed' \subseteq Symbols, fresh' \subseteq Groups,
         DOMAIN items' \subseteq listed', \A s \in DOMAIN items' : items'[s] \in Item,
         DOMAIN groups' \subseteq Groups \ fresh', \A g \in DOMAIN groups' : groups'[g] \in GroupRow
  PROVE  WatchTypes'
  <1>1. request' = [q \in Requests |-> request'[q]]
    BY DEF WatchTypes, Does
  <1>2. \A q \in Requests : request'[q] = IF q = r THEN x ELSE request[q]
    BY DEF WatchTypes, Does
  <1>3. ASSUME NEW q \in Requests PROVE Remembers(request[q])'
    <2>1. CASE q = r
      BY <1>2, <2>1 DEF Remembers, StockOK, WritesOK
    <2>2. CASE q # r
      <3>1. request'[q] = request[q] /\ Remembers(request[q])
        BY <1>2, <2>2 DEF WatchTypes
      <3> QED BY <3>1 DEF Remembers, StockOK, WritesOK
    <2> QED BY <2>1, <2>2
  <1>4. \A q \in Requests : request'[q].step \in Steps
    BY <1>3 DEF Remembers
  <1>5. WatchTypeOK'
    BY <1>4 DEF WatchTypeOK, Watched, Steps
  <1> QED BY <1>1, <1>3, <1>5 DEF WatchTypes

\* A request that is done, or has not begun, remembers nothing.
LEMMA WaitingRemembers == Remembers(Waiting) /\ Remembers(Waiting)'
  BY DEF Waiting, Remembers, StockOK, WritesOK, Steps

\* Nothing is there at first.
LEMMA TypesStart == ASSUME WatchInit PROVE WatchTypes
  BY WaitingRemembers DEF WatchInit, WatchTypes, WatchTypeOK, Watched, Waiting

\* The steps of a request that writes no entry and no group.
LEMMA TypesLooking ==
  ASSUME WatchTypes, NEW r \in Requests,
         \/ \E s \in Symbols : Ensure(r, s) \/ Patch(r, s)
         \/ ListStock(r) \/ LookForItem(r) \/ Enqueue(r)
         \/ Reorder(r) \/ LookForName(r) \/ LookForMembers(r) \/ RequestDies(r)
  PROVE  WatchTypes'
  <1>1. Remembers(request[r])
    BY DEF WatchTypes
  <1>2. ASSUME NEW x, Does(r, x), Remembers(x), UNCHANGED <<listed, items, groups, fresh>>
        PROVE  WatchTypes'
    <2>1. Remembers(x)'
      BY <1>2 DEF Remembers, StockOK, WritesOK
    <2> QED BY <1>2, <2>1, TypesGoOn DEF WatchTypes, WatchTypeOK, Watched
  <1>3. listed \subseteq Symbols /\ DOMAIN groups \subseteq Groups
    BY DEF WatchTypes, WatchTypeOK
  <1>4. ASSUME NEW s \in Symbols, Ensure(r, s) PROVE WatchTypes'
    <2> DEFINE x == [step |-> IF s \in listed THEN "look" ELSE "search", stock |-> s]
    <2>1. Remembers(x)
      BY DEF Remembers, StockOK, WritesOK, Steps
    <2>2. Does(r, x) /\ UNCHANGED <<listed, items, groups, fresh>>
      BY <1>4 DEF Ensure
    <2> HIDE DEF x
    <2> QED BY <1>2, <1>3, <2>1, <2>2
  <1>5. CASE ListStock(r)
    <2>1. request[r].step = "search" /\ UNCHANGED <<items, groups, fresh>>
      BY <1>5 DEF ListStock
    <2>2. CASE UNCHANGED listed /\ Does(r, Waiting)
      BY <1>2, <1>3, <2>1, <2>2, WaitingRemembers
    <2>3. CASE /\ listed' = listed \cup {request[r].stock}
               /\ Does(r, [request[r] EXCEPT !.step = "look"])
      <3>5. PICK x : x = [request[r] EXCEPT !.step = "look"]
        OBVIOUS
      <3>1. x.step \in {"search", "look"} /\ x.stock = request[r].stock
        BY <2>1, <3>5
      <3>2. request[r].stock \in Symbols
        BY <1>1, <2>1 DEF Remembers, StockOK
      <3>3. Does(r, x)
        BY <2>3, <3>5
      <3>4. Remembers(x)'
        BY <2>3, <3>1, <3>2 DEF Remembers, StockOK, WritesOK, Steps
      <3> QED BY <1>3, <2>1, <2>3, <3>2, <3>3, <3>4, TypesGoOn DEF WatchTypes, WatchTypeOK, Watched
    <2> QED BY <1>5, <2>2, <2>3 DEF ListStock
  <1>6. CASE LookForItem(r)
    <2> DEFINE x == [request[r] EXCEPT
           !.step = IF request[r].stock \in Watched THEN "enqueue" ELSE "insert"]
    <2>1. request[r].step = "look" /\ Does(r, x) /\ UNCHANGED <<listed, items, groups, fresh>>
      BY <1>6 DEF LookForItem
    <2>2. x.step \in {"look", "insert", "enqueue"} /\ x.stock = request[r].stock
      BY <2>1
    <2> HIDE DEF x
    <2>3. Remembers(x)
      BY <1>1, <2>1, <2>2 DEF Remembers, StockOK, WritesOK, Steps
    <2> QED BY <1>2, <1>3, <2>1, <2>3
  <1>7. CASE Enqueue(r)
    BY <1>2, <1>7, WaitingRemembers DEF Enqueue
  <1>8. CASE Reorder(r)
    <2>1. PICK moved \in SUBSET Watched \ {{}}, m \in Markets :
            \E put \in [moved -> Valid(m)] :
              Does(r, [step |-> "place", loaded |-> Restrict(items, moved), group |-> put, ask |-> {}])
      BY <1>8 DEF Reorder
    <2>2. PICK put \in [moved -> Valid(m)] :
            Does(r, [step |-> "place", loaded |-> Restrict(items, moved), group |-> put, ask |-> {}])
      BY <2>1
    <2> DEFINE x == [step |-> "place", loaded |-> Restrict(items, moved), group |-> put, ask |-> {}]
    <2>3. \A s \in moved : put[s] \in Groups \cup {NoGroup}
      BY <1>3 DEF Valid
    <2>4. x.step = "place" /\ x.group = put /\ DOMAIN x.loaded = moved /\ Does(r, x)
      BY <2>2 DEF Restrict
    <2> HIDE DEF x
    <2>5. Remembers(x)
      BY <2>3, <2>4 DEF Remembers, StockOK, WritesOK, Steps
    <2> QED BY <1>2, <1>8, <2>4, <2>5 DEF Reorder
  <1>9. ASSUME NEW s \in Symbols, Patch(r, s) PROVE WatchTypes'
    <2>1. PICK g \in Valid(Market[s]) \cup {items[s].group}, ask \in {{}, {TRUE}, {FALSE}} :
            Does(r, [step |-> "place", loaded |-> Restrict(items, {s}),
                     group |-> [y \in {s} |-> g], ask |-> ask])
      BY <1>9 DEF Patch
    <2> DEFINE x == [step |-> "place", loaded |-> Restrict(items, {s}),
                     group |-> [y \in {s} |-> g], ask |-> ask]
    <2>2. items[s].group \in Groups \cup {NoGroup}
      BY <1>9 DEF Patch, WatchTypes, WatchTypeOK, Item
    <2>3. g \in Groups \cup {NoGroup}
      BY <1>3, <2>1, <2>2 DEF Valid
    <2>4. x.step = "place" /\ x.group[s] = g /\ DOMAIN x.loaded = {s} /\ Does(r, x)
      BY <2>1 DEF Restrict
    <2> HIDE DEF x
    <2>5. Remembers(x)
      BY <2>3, <2>4 DEF Remembers, StockOK, WritesOK, Steps
    <2> QED BY <1>2, <1>9, <2>4, <2>5 DEF Patch
  <1>10. CASE LookForName(r)
    <2>1. PICK n \in Names, m \in Markets, g \in {NoGroup} \cup DOMAIN groups :
            Does(r, [step |-> "name", id |-> g, market |-> m, name |-> n])
      BY <1>10 DEF LookForName
    <2> DEFINE x == [step |-> "name", id |-> g, market |-> m, name |-> n]
    <2>2. Remembers(x)
      BY <1>3 DEF Remembers, StockOK, WritesOK, Steps
    <2>3. Does(r, x)
      BY <2>1
    <2> HIDE DEF x
    <2> QED BY <1>2, <1>3, <1>10, <2>2, <2>3 DEF LookForName
  <1>11. CASE LookForMembers(r)
    <2>1. PICK g \in DOMAIN groups :
            Does(r, [step |-> "ungroup", id |-> g, loaded |-> {s \in Watched : items[s].group = g}])
      BY <1>11 DEF LookForMembers
    <2> DEFINE x == [step |-> "ungroup", id |-> g, loaded |-> {s \in Watched : items[s].group = g}]
    <2>2. Remembers(x)
      BY DEF Remembers, StockOK, WritesOK, Steps
    <2>3. Does(r, x)
      BY <2>1
    <2> HIDE DEF x
    <2> QED BY <1>2, <1>3, <1>11, <2>2, <2>3 DEF LookForMembers
  <1>12. CASE RequestDies(r)
    BY <1>2, <1>3, <1>12, WaitingRemembers DEF RequestDies
  <1> QED BY <1>4, <1>5, <1>6, <1>7, <1>8, <1>10, <1>11, <1>12, <1>9

\* The steps of a request that writes entries or groups.
LEMMA TypesWriting ==
  ASSUME WatchTypes, NEW r \in Requests,
         InsertItem(r) \/ CommitPlace(r) \/ CommitName(r) \/ CommitDelete(r)
  PROVE  WatchTypes'
  <1> DEFINE x == request[r]
  <1>1. Remembers(x)
    BY DEF WatchTypes
  <1>2. /\ listed \subseteq Symbols /\ fresh \subseteq Groups
        /\ Watched \subseteq listed /\ \A s \in Watched : items[s] \in Item
        /\ DOMAIN groups \subseteq Groups \ fresh /\ \A g \in DOMAIN groups : groups[g] \in GroupRow
    BY DEF WatchTypes, WatchTypeOK
  <1>3. CASE InsertItem(r)
    <2>7. PICK y : y = [x EXCEPT !.step = "enqueue"]
      OBVIOUS
    <2>1. x.step = "insert" /\ Does(r, y) /\ UNCHANGED <<listed, groups, fresh>>
      BY <1>3, <2>7 DEF InsertItem
    <2>2. x.stock \in listed /\ x.stock \in Symbols
      BY <1>1, <2>1 DEF Remembers, StockOK
    <2>3. y.step \in {"insert", "enqueue"} /\ y.stock = x.stock
      BY <2>1, <2>7
    <2>4. Remembers(y)'
      BY <2>1, <2>2, <2>3 DEF Remembers, StockOK, WritesOK, Steps
    <2>5. NewItem \in Item
      BY DEF NewItem, Item
    <2>6. DOMAIN items' \subseteq listed /\ \A s \in DOMAIN items' : items'[s] \in Item
      BY <1>2, <1>3, <2>2, <2>5 DEF InsertItem, Put, Watched
    <2> QED BY <1>2, <2>1, <2>4, <2>6, TypesGoOn
  <1>4. CASE CommitPlace(r)
    <2>1. x.step = "place" /\ Does(r, Waiting) /\ UNCHANGED <<listed, groups, fresh>>
      BY <1>4 DEF CommitPlace
    <2>2. \A s \in DOMAIN x.loaded : x.group[s] \in Groups \cup {NoGroup}
      BY <1>1, <2>1 DEF Remembers, WritesOK
    <2>3. ASSUME NEW s \in Watched, s \in DOMAIN x.loaded PROVE Changed(items[s], x, s) \in Item
      <3>1. /\ items[s].group \in Groups \cup {NoGroup} /\ items[s].managed \in BOOLEAN
        BY <1>2 DEF Item
      <3>2. PICK n \in Groups \cup {NoGroup} :
              n = IF Regroups(x, s) THEN x.group[s] ELSE items[s].group
        BY <2>2, <2>3, <3>1
      <3>3. PICK b \in BOOLEAN :
              b = IF Hands(x, s) THEN TRUE \in x.ask ELSE items[s].managed
        <4>1. (TRUE \in x.ask) \in BOOLEAN
          OBVIOUS
        <4>2. CASE Hands(x, s)
          BY <4>1, <4>2
        <4>3. CASE ~Hands(x, s)
          BY <3>1, <4>3
        <4> QED BY <4>2, <4>3
      <3>4. Changed(items[s], x, s) = [group |-> n, managed |-> b]
        BY <3>2, <3>3, Zenon DEF Changed
      <3> QED BY <3>4 DEF Item
    <2>4. DOMAIN items' = Watched /\ \A s \in Watched : items'[s] \in Item
      BY <1>2, <1>4, <2>3 DEF CommitPlace, Watched
    <2> QED BY <1>2, <2>1, <2>4, WaitingRemembers, TypesGoOn
  <1>5. CASE CommitName(r)
    <2> DEFINE new == x.id = NoGroup
               g == IF new THEN CHOOSE i \in fresh : TRUE ELSE x.id
               row == [market |-> x.market, name |-> x.name]
    <2>1. /\ x.step = "name" /\ (new => fresh # {})
          /\ Does(r, Waiting) /\ UNCHANGED <<listed, items>>
      BY <1>5 DEF CommitName
    <2>2. CASE UNCHANGED <<groups, fresh>>
      BY <1>2, <2>1, <2>2, WaitingRemembers, TypesGoOn DEF Watched
    <2>3. CASE /\ new \/ g \in DOMAIN groups
               /\ groups' = Put(groups, g, row) /\ fresh' = fresh \ {g}
      <3>1. row \in GroupRow
        BY <1>1, <2>1 DEF Remembers, WritesOK, GroupRow
      <3>2. g \in Groups
        <4>1. CASE new
          <5>1. g \in fresh
            BY <2>1, <4>1
          <5> QED BY <1>2, <5>1
        <4>2. CASE ~new
          BY <1>2, <2>3, <4>2
        <4> QED BY <4>1, <4>2
      <3> HIDE DEF g, row
      <3>3. DOMAIN groups' = DOMAIN groups \cup {g}
        BY <2>3 DEF Put
      <3>4. \A h \in DOMAIN groups' : groups'[h] \in GroupRow
        BY <1>2, <2>3, <3>1, <3>3 DEF Put
      <3>5. DOMAIN groups' \subseteq Groups \ fresh' /\ fresh' \subseteq Groups
        BY <1>2, <2>3, <3>2, <3>3
      <3> QED BY <1>2, <2>1, <3>4, <3>5, WaitingRemembers, TypesGoOn DEF Watched
    <2> QED BY <1>5, <2>2, <2>3 DEF CommitName
  <1>6. CASE CommitDelete(r)
    <2>1. Does(r, Waiting) /\ UNCHANGED <<listed, fresh>>
      BY <1>6 DEF CommitDelete
    <2>2. CASE UNCHANGED <<groups, items>>
      BY <1>2, <2>1, <2>2, WaitingRemembers, TypesGoOn DEF Watched
    <2>3. CASE /\ groups' = Restrict(groups, DOMAIN groups \ {x.id})
               /\ items' = [s \in Watched |->
                    IF s \in x.loaded THEN [items[s] EXCEPT !.group = NoGroup] ELSE items[s]]
      <3>1. DOMAIN groups' \subseteq Groups \ fresh /\ \A g \in DOMAIN groups' : groups'[g] \in GroupRow
        BY <1>2, <2>3 DEF Restrict
      <3>2. \A s \in Watched : [items[s] EXCEPT !.group = NoGroup] \in Item
        BY <1>2 DEF Item
      <3>3. DOMAIN items' = Watched /\ \A s \in Watched : items'[s] \in Item
        BY <1>2, <2>3, <3>2
      <3> QED BY <1>2, <2>1, <3>1, <3>3, WaitingRemembers, TypesGoOn
    <2> QED BY <1>6, <2>2, <2>3 DEF CommitDelete
  <1> QED BY <1>3, <1>4, <1>5, <1>6

\* The removal of an entry.
LEMMA TypesRemove ==
  ASSUME WatchTypes, NEW s \in Symbols, RemoveItem(s)
  PROVE  WatchTypes'
  <1>1. UNCHANGED <<listed, groups, fresh>> /\ items' = Restrict(items, Watched \ {s})
    BY DEF RemoveItem
  <1>2. request' = [r \in Requests |-> request'[r]]
    BY DEF RemoveItem
  <1>3. ASSUME NEW r \in Requests PROVE Remembers(request[r])'
    <2>1. Remembers(request[r])
      BY DEF WatchTypes
    <2>2. CASE request'[r] = Waiting
      BY <2>2, WaitingRemembers DEF Remembers, StockOK, WritesOK, Waiting
    <2>3. CASE request'[r] = request[r]
      BY <1>1, <2>1, <2>3 DEF Remembers, StockOK, WritesOK
    <2>4. CASE /\ request[r].step = "place"
               /\ request'[r] = [request[r] EXCEPT !.loaded = Restrict(@, DOMAIN @ \ {s})]
      <3>1. /\ request'[r].step = "place" /\ request'[r].group = request[r].group
            /\ DOMAIN request'[r].loaded \subseteq DOMAIN request[r].loaded
        BY <2>4 DEF Restrict
      <3> QED BY <2>1, <2>4, <3>1 DEF Remembers, StockOK, WritesOK
    <2> QED BY <2>2, <2>3, <2>4 DEF RemoveItem
  <1>4. \A r \in Requests : request'[r].step \in Steps
    BY <1>3 DEF Remembers
  <1>5. WatchTypeOK'
    BY <1>1, <1>4 DEF WatchTypes, WatchTypeOK, Watched, Restrict, Steps
  <1> QED BY <1>2, <1>3, <1>5 DEF WatchTypes

\* Every step keeps the types.
LEMMA TypesKept ==
  ASSUME WatchTypes, [WatchNext]_watchVars
  PROVE  WatchTypes'
  <1>1. CASE UNCHANGED watchVars
    BY <1>1 DEF watchVars, WatchTypes, WatchTypeOK, Watched, Remembers, StockOK, WritesOK
  <1>2. CASE WatchNext
    BY <1>2, TypesLooking, TypesWriting, TypesRemove DEF WatchNext
  <1> QED BY <1>1, <1>2

\* What is watched is listed, every entry and every group is a row of its table, and no
\* id of a group that exists is free.
THEOREM WatchTypesKept == WatchSpec => []WatchTypeOK
  <1>1. WatchInit => WatchTypes
    BY TypesStart
  <1>2. WatchTypes /\ [WatchNext]_watchVars => WatchTypes'
    BY TypesKept
  <1>3. WatchTypes => WatchTypeOK
    BY DEF WatchTypes
  <1> QED BY <1>1, <1>2, <1>3, PTL DEF WatchSpec

-----------------------------------------------------------------------------
(* Alerts and their outbox *)

\* A trigger was reported once, and its event stays as long as its alert does.
TriggerOK(a, d) ==
  /\ triggered[<<a, d>>] <= 1
  /\ triggered[<<a, d>>] = 1 => a \notin unborn /\ (a \in alerts => Known(<<a, d>>))

\* What a row says of itself is true.
EventOK(e) ==
  /\ e.status = "pending" => e.attempts < MaxNotify
  /\ HasUrl => /\ e.attempts <= e.posts
               /\ e.status = "sent" => e.heard
               /\ e.status = "failed" => e.posts >= MaxNotify

\* A count read before the await is of requests made, and after it there was one more.
ReadOK(x, i) ==
  /\ x.batch[i] < MaxNotify
  /\ HasUrl /\ i \in DOMAIN outbox =>
       /\ x.step = "post" => x.batch[i] <= outbox[i].posts
       /\ x.step = "mark" => /\ x.batch[i] < outbox[i].posts
                             /\ x.ok => outbox[i].heard

ReadsOK(x) == x.step \in {"post", "mark"} => \A i \in DOMAIN x.batch : ReadOK(x, i)

AlertInv ==
  /\ AlertTypeOK
  /\ \A a \in Alerts, d \in 1 .. AlertDays : TriggerOK(a, d)
  /\ \A i \in DOMAIN outbox : EventOK(outbox[i])
  /\ \A r \in Checks : ReadsOK(check[r])

-----------------------------------------------------------------------------
(* Runs and what they know *)

\* Where a run may stand.
Standing ==
  {Resting}
    \cup [step : {"look"}, todo : SUBSET Alerts, reload : BOOLEAN]
    \cup [step : {"insert"}, todo : SUBSET Alerts, reload : BOOLEAN,
          alert : Alerts, day : 1 .. AlertDays]
    \cup [step : {"post"}, batch : Batches]
    \cup [step : {"mark"}, batch : Batches, ok : BOOLEAN]

\* A run that is about to send or to mark has a batch of events.
LEMMA BatchType ==
  ASSUME NEW x \in Standing, x.step \in {"post", "mark"}
  PROVE  /\ x.batch \in Batches
         /\ DOMAIN x.batch \subseteq 1 .. given
         /\ \A i \in DOMAIN x.batch : x.batch[i] \in 0 .. MaxNotify
         /\ x.step = "mark" => x.ok \in BOOLEAN
  <1>1. x # Resting /\ x \notin [step : {"look"}, todo : SUBSET Alerts, reload : BOOLEAN]
        /\ x \notin [step : {"insert"}, todo : SUBSET Alerts, reload : BOOLEAN,
                     alert : Alerts, day : 1 .. AlertDays]
    BY DEF Resting
  <1>2. x \in [step : {"post"}, batch : Batches] \/ x \in [step : {"mark"}, batch : Batches, ok : BOOLEAN]
    BY <1>1 DEF Standing
  <1>3. x.batch \in Batches /\ (x.step = "mark" => x.ok \in BOOLEAN)
    BY <1>2
  <1>4. PICK ids \in SUBSET (1 .. given) : x.batch \in [ids -> 0 .. MaxNotify]
    BY <1>3 DEF Batches
  <1> QED BY <1>3, <1>4

\* As the table grows a run stands where it stood.
LEMMA StandingGrows ==
  ASSUME given \in Nat, given' \in {given, given + 1}
  PROVE  Standing \subseteq Standing'
  <1>1. Batches \subseteq Batches'
    <2>1. SUBSET (1 .. given) \subseteq SUBSET (1 .. given')
      OBVIOUS
    <2> QED BY <2>1 DEF Batches
  <1> QED BY <1>1 DEF Standing

\* One run goes on, the others stand where they stood.
LEMMA RunGoes ==
  ASSUME AlertInv, NEW r \in Checks, NEW x \in Standing', given' \in {given, given + 1},
         check' = [check EXCEPT ![r] = x]
  PROVE  /\ check' \in [Checks -> Standing'] /\ check'[r] = x
         /\ \A q \in Checks : q # r => check'[q] = check[q]
  <1>1. check \in [Checks -> Standing] /\ given \in Nat
    BY DEF AlertInv, AlertTypeOK, Standing
  <1>2. Standing \subseteq Standing'
    BY <1>1, StandingGrows
  <1> QED BY <1>1, <1>2

\* What is known of a row that was there stays true.
LEMMA ReadsKept ==
  ASSUME AlertInv, NEW q \in Checks, check'[q] = check[q],
         \A i \in DOMAIN outbox' : i \in 1 .. given =>
           /\ i \in DOMAIN outbox
           /\ outbox'[i].posts \in Nat /\ outbox'[i].posts >= outbox[i].posts
           /\ outbox[i].heard => outbox'[i].heard
  PROVE  ReadsOK(check[q])'
  <1>1. SUFFICES ASSUME check[q].step \in {"post", "mark"}, NEW i \in DOMAIN check[q].batch
                 PROVE  ReadOK(check[q], i)'
    BY DEF ReadsOK
  <1>2. ReadOK(check[q], i)
    BY <1>1 DEF AlertInv, ReadsOK
  <1>3. check[q] \in Standing
    BY DEF AlertInv, AlertTypeOK, Standing
  <1>4. i \in 1 .. given /\ check[q].batch[i] \in 0 .. MaxNotify
    BY <1>1, <1>3, BatchType
  <1>5. i \in DOMAIN outbox => outbox[i].posts \in Nat
    BY AlertAssumption DEF AlertInv, AlertTypeOK, Events
  <1> QED BY <1>1, <1>2, <1>4, <1>5 DEF ReadOK

\* Rows nobody touches.
LEMMA RowsKept ==
  ASSUME AlertInv, outbox' = outbox
  PROVE  /\ \A i \in DOMAIN outbox' : i \in 1 .. given =>
              /\ i \in DOMAIN outbox
              /\ outbox'[i].posts \in Nat /\ outbox'[i].posts >= outbox[i].posts
              /\ outbox[i].heard => outbox'[i].heard
         /\ outbox' \in [DOMAIN outbox' -> Events]
         /\ \A i \in DOMAIN outbox' : EventOK(outbox[i])'
  <1>1. \A i \in DOMAIN outbox : outbox[i].posts \in Nat
    BY AlertAssumption DEF AlertInv, AlertTypeOK, Events
  <1>2. outbox \in [DOMAIN outbox -> Events] /\ \A i \in DOMAIN outbox : EventOK(outbox[i])
    BY DEF AlertInv, AlertTypeOK
  <1>3. \A i \in DOMAIN outbox' : EventOK(outbox[i])'
    BY <1>2 DEF EventOK
  <1> QED BY <1>1, <1>2, <1>3

-----------------------------------------------------------------------------
(* Every step keeps the invariant *)

\* A step that touches only alerts, days and runs that read nothing of the outbox.
LEMMA PricesStep ==
  ASSUME AlertInv, NewPrices
  PROVE  AlertInv'
  <1>1. priceDay' \in 0 .. AlertDays
    BY AlertAssumption DEF NewPrices, AlertInv, AlertTypeOK
  <1>2. UNCHANGED <<unborn, alerts, outbox, given, check, triggered, deaths>>
    BY DEF NewPrices
  <1>3. \A r \in Checks : ReadsOK(check[r])'
    BY <1>2, ReadsKept, RowsKept
  <1>4. \A a \in Alerts, d \in 1 .. AlertDays : TriggerOK(a, d)'
    BY <1>2 DEF AlertInv, TriggerOK, Known
  <1> QED BY <1>1, <1>2, <1>3, <1>4, RowsKept DEF AlertInv, AlertTypeOK, Batches

\* A new alert has triggered nothing, and an alert takes its events with it.
LEMMA AlertStep ==
  ASSUME AlertInv, NEW a \in Alerts, CreateAlert(a) \/ DeleteAlert(a)
  PROVE  AlertInv'
  <1>1. UNCHANGED <<priceDay, given, check, triggered, deaths>>
    BY DEF CreateAlert, DeleteAlert
  <1>2. unborn' \subseteq Alerts /\ alerts' \subseteq Alerts \ unborn'
    BY DEF CreateAlert, DeleteAlert, AlertInv, AlertTypeOK
  <1>3. /\ DOMAIN outbox' \subseteq DOMAIN outbox
        /\ \A i \in DOMAIN outbox' : outbox'[i] = outbox[i]
        /\ outbox' \in [DOMAIN outbox' -> Events]
    BY DEF CreateAlert, DeleteAlert, AlertInv, AlertTypeOK
  <1>4. ASSUME NEW b \in Alerts, NEW d \in 1 .. AlertDays PROVE TriggerOK(b, d)'
    <2>1. TriggerOK(b, d)
      BY DEF AlertInv
    <2>2. CASE CreateAlert(a)
      BY <1>1, <2>1, <2>2 DEF CreateAlert, TriggerOK, Known
    <2>3. CASE DeleteAlert(a)
      <3>1. b \in alerts' /\ Known(<<b, d>>) => Known(<<b, d>>)'
        <4>1. ASSUME b \in alerts', NEW i \in DOMAIN outbox, KeyOf(outbox[i]) = <<b, d>>
              PROVE  i \in DOMAIN outbox' /\ outbox'[i] = outbox[i]
          <5>1. b # a /\ outbox[i].alert = b
            BY <2>3, <4>1 DEF DeleteAlert, KeyOf
          <5> QED BY <2>3, <5>1 DEF DeleteAlert
        <4> QED BY <4>1 DEF Known, KeyOf
      <3> QED BY <1>1, <2>1, <2>3, <3>1 DEF DeleteAlert, TriggerOK
    <2> QED BY <2>2, <2>3
  <1>5. \A i \in DOMAIN outbox' : EventOK(outbox[i])'
    BY <1>3 DEF AlertInv, EventOK
  <1>6. \A r \in Checks : ReadsOK(check[r])'
    <2>1. \A i \in DOMAIN outbox : outbox[i].posts \in Nat
      BY AlertAssumption DEF AlertInv, AlertTypeOK, Events
    <2> QED BY <1>1, <1>3, <2>1, ReadsKept
  <1> QED BY <1>1, <1>2, <1>3, <1>4, <1>5, <1>6 DEF AlertInv, AlertTypeOK, Batches

\* Steps of a run before it has anything to do with the outbox, and its end.
LEMMA QuietStep ==
  ASSUME AlertInv, NEW r \in Checks, NEW x \in Standing,
         check' = [check EXCEPT ![r] = x], ReadsOK(x)',
         UNCHANGED <<unborn, alerts, priceDay, outbox, given, triggered>>,
         deaths' \in 0 .. MaxDeaths
  PROVE  AlertInv'
  <1>1. Standing' = Standing
    BY DEF Standing, Batches
  <1>2. /\ check' \in [Checks -> Standing'] /\ check'[r] = x
        /\ \A q \in Checks : q # r => check'[q] = check[q]
    BY <1>1, RunGoes
  <1>3. \A q \in Checks : ReadsOK(check[q])'
    <2>1. ASSUME NEW q \in Checks PROVE ReadsOK(check[q])'
      <3>1. CASE q = r
        BY <1>2, <3>1
      <3>2. CASE q # r
        BY <1>2, <3>2, ReadsKept, RowsKept
      <3> QED BY <3>1, <3>2
    <2> QED BY <2>1
  <1>4. \A a \in Alerts, d \in 1 .. AlertDays : TriggerOK(a, d)'
    BY DEF AlertInv, TriggerOK, Known
  <1> QED BY <1>2, <1>3, <1>4, RowsKept DEF AlertInv, AlertTypeOK, Standing

\* A run that neither sends nor marks has read nothing yet.
LEMMA NothingRead ==
  ASSUME NEW x \in Standing, x.step \notin {"post", "mark"}
  PROVE  ReadsOK(x)'
  BY DEF ReadsOK

\* Starting, looking, and dying.
LEMMA LookStep ==
  ASSUME AlertInv, NEW r \in Checks, StartRun(r) \/ CheckAlert(r) \/ RunDies(r)
  PROVE  AlertInv'
  <1>1. /\ alerts \subseteq Alerts /\ priceDay \in 0 .. AlertDays /\ AlertDays \in Nat
        /\ check \in [Checks -> Standing] /\ deaths \in 0 .. MaxDeaths /\ MaxDeaths \in Nat
    BY AlertAssumption DEF AlertInv, AlertTypeOK, Standing
  <1>2. Resting \in Standing /\ Resting.step = "rest"
    BY DEF Standing, Resting
  <1>3. CASE StartRun(r)
    <2> DEFINE x == [step |-> "look", todo |-> alerts, reload |-> FALSE]
    <2>1. x \in Standing /\ x.step = "look"
      BY <1>1 DEF Standing
    <2>2. check' = [check EXCEPT ![r] = x]
      BY <1>3 DEF StartRun
    <2> HIDE DEF x
    <2> QED BY <1>1, <1>3, <2>1, <2>2, NothingRead, QuietStep DEF StartRun
  <1>4. CASE CheckAlert(r)
    <2>1. check[r].step = "look" /\ check[r] \in Standing
      BY <1>1, <1>4 DEF CheckAlert
    <2>2. check[r] \in [step : {"look"}, todo : SUBSET Alerts, reload : BOOLEAN]
      BY <2>1 DEF Standing, Resting
    <2>3. PICK a \in check[r].todo :
            \/ check' = [check EXCEPT ![r] = Resting]
            \/ check' = [check EXCEPT ![r] = [check[r] EXCEPT !.todo = @ \ {a}]]
            \/ /\ priceDay > 0
               /\ check' = [check EXCEPT ![r] =
                    [step |-> "insert", todo |-> [check[r] EXCEPT !.todo = @ \ {a}].todo,
                     reload |-> [check[r] EXCEPT !.todo = @ \ {a}].reload,
                     alert |-> a, day |-> priceDay]]
      BY <1>4 DEF CheckAlert
    <2>4. [check[r] EXCEPT !.todo = @ \ {a}] \in [step : {"look"}, todo : SUBSET Alerts, reload : BOOLEAN]
      BY <2>2
    <2>5. PICK x \in Standing : x.step \notin {"post", "mark"} /\ check' = [check EXCEPT ![r] = x]
      <3>1. CASE check' = [check EXCEPT ![r] = Resting]
        BY <1>2, <3>1
      <3>2. CASE check' = [check EXCEPT ![r] = [check[r] EXCEPT !.todo = @ \ {a}]]
        <4>1. [check[r] EXCEPT !.todo = @ \ {a}].step = "look"
          BY <2>4
        <4> QED BY <2>4, <3>2, <4>1 DEF Standing
      <3>3. CASE priceDay > 0 /\ check' = [check EXCEPT ![r] =
                    [step |-> "insert", todo |-> [check[r] EXCEPT !.todo = @ \ {a}].todo,
                     reload |-> [check[r] EXCEPT !.todo = @ \ {a}].reload,
                     alert |-> a, day |-> priceDay]]
        <4> DEFINE x == [step |-> "insert", todo |-> [check[r] EXCEPT !.todo = @ \ {a}].todo,
                         reload |-> [check[r] EXCEPT !.todo = @ \ {a}].reload,
                         alert |-> a, day |-> priceDay]
        <4>1. a \in Alerts /\ priceDay \in 1 .. AlertDays
          BY <1>1, <2>2, <3>3
        <4>2. x \in [step : {"insert"}, todo : SUBSET Alerts, reload : BOOLEAN,
                     alert : Alerts, day : 1 .. AlertDays]
          BY <2>4, <4>1
        <4>3. x.step = "insert"
          OBVIOUS
        <4> HIDE DEF x
        <4>4. x \in Standing
          BY <4>2 DEF Standing
        <4>5. check' = [check EXCEPT ![r] = x]
          BY <3>3 DEF x
        <4> QED BY <4>3, <4>4, <4>5
      <3> QED BY <2>3, <3>1, <3>2, <3>3
    <2> QED BY <1>1, <1>4, <2>5, NothingRead, QuietStep DEF CheckAlert
  <1>5. CASE RunDies(r)
    <2>1. deaths' \in 0 .. MaxDeaths
      BY <1>1, <1>5 DEF RunDies
    <2> QED BY <1>2, <1>5, <2>1, NothingRead, QuietStep DEF RunDies
  <1> QED BY <1>3, <1>4, <1>5

\* A run that has counted a trigger has put its event there, and nobody had before.
LEMMA TriggerStep ==
  ASSUME AlertInv, NEW r \in Checks, InsertEvent(r)
  PROVE  AlertInv'
  <1> DEFINE x == check[r]
             fails == x.alert \notin alerts \/ Taken(<<x.alert, x.day>>)
             y == [step |-> "look", todo |-> x.todo, reload |-> x.reload \/ fails]
  <1>1. /\ check \in [Checks -> Standing] /\ given \in Nat /\ DOMAIN outbox \subseteq 1 .. given
        /\ outbox \in [DOMAIN outbox -> Events] /\ triggered \in [Alerts \X (1 .. AlertDays) -> Nat]
        /\ MaxNotify \in Nat \ {0} /\ deaths \in 0 .. MaxDeaths
    BY AlertAssumption DEF AlertInv, AlertTypeOK, Standing
  <1>2. x \in [step : {"insert"}, todo : SUBSET Alerts, reload : BOOLEAN,
               alert : Alerts, day : 1 .. AlertDays]
    <2>1. x \in Standing /\ x.step = "insert"
      BY <1>1 DEF InsertEvent
    <2> QED BY <2>1 DEF Standing, Resting
  <1>3. y \in Standing /\ y.step = "look"
    <2>1. y \in [step : {"look"}, todo : SUBSET Alerts, reload : BOOLEAN]
      BY <1>2
    <2> QED BY <2>1 DEF Standing
  <1>4. check' = [check EXCEPT ![r] = y] /\ UNCHANGED <<unborn, alerts, priceDay, deaths>>
    BY DEF InsertEvent
  <1>5. CASE fails
    <2>1. UNCHANGED <<outbox, given, triggered>>
      BY <1>5 DEF InsertEvent
    <2> HIDE DEF y
    <2> QED BY <1>1, <1>3, <1>4, <2>1, NothingRead, QuietStep
  <1>6. CASE ~fails
    <2>1. PICK a \in Alerts, d \in 1 .. AlertDays, n \in Nat :
          /\ a \in alerts /\ ~Known(<<a, d>>)
          /\ n = given + 1 /\ given' = n
          /\ outbox' = [i \in DOMAIN outbox \cup {n} |->
               IF i = n THEN NewEvent(a, d) ELSE outbox[i]]
          /\ triggered' = [triggered EXCEPT ![<<a, d>>] = @ + 1]
      <3>1. /\ x.alert \in Alerts /\ x.day \in 1 .. AlertDays /\ given + 1 \in Nat
            /\ x.alert \in alerts /\ ~Known(<<x.alert, x.day>>)
            /\ given' = given + 1
            /\ outbox' = [i \in DOMAIN outbox \cup {given + 1} |->
                 IF i = given + 1 THEN NewEvent(x.alert, x.day) ELSE outbox[i]]
            /\ triggered' = [triggered EXCEPT ![<<x.alert, x.day>>] = @ + 1]
        BY <1>1, <1>2, <1>6 DEF InsertEvent, Taken, Known
      <3> QED BY <3>1
    <2> HIDE DEF x, y, fails
    <2>2. /\ n \notin DOMAIN outbox /\ n \in 1 .. given'
          /\ DOMAIN outbox' = DOMAIN outbox \cup {n} /\ DOMAIN outbox' \subseteq 1 .. given'
          /\ outbox'[n] = NewEvent(a, d) /\ \A i \in DOMAIN outbox : outbox'[i] = outbox[i]
      BY <1>1, <2>1
    <2>3. NewEvent(a, d) \in Events
      BY <1>1, <2>1 DEF NewEvent, Events
    <2>4. outbox' \in [DOMAIN outbox' -> Events]
      BY <1>1, <2>1, <2>2, <2>3
    <2>5. \A i \in DOMAIN outbox' : EventOK(outbox[i])'
      <3>1. EventOK(NewEvent(a, d))
        BY <1>1 DEF EventOK, NewEvent
      <3>2. \A i \in DOMAIN outbox : EventOK(outbox[i])
        BY DEF AlertInv
      <3> QED BY <2>2, <3>1, <3>2 DEF EventOK
    <2>6. /\ check' \in [Checks -> Standing'] /\ check'[r] = y
          /\ \A q \in Checks : q # r => check'[q] = check[q]
      <3>1. y \in Standing'
        BY <1>1, <1>3, <2>1, StandingGrows
      <3> QED BY <1>4, <2>1, <3>1, RunGoes
    <2>7. ASSUME NEW q \in Checks PROVE ReadsOK(check[q])'
      <3>1. CASE q = r
        BY <1>3, <2>6, <3>1 DEF ReadsOK
      <3>2. CASE q # r
        <4>1. \A i \in DOMAIN outbox : outbox[i].posts \in Nat
          BY <1>1 DEF Events
        <4>2. ASSUME NEW i \in DOMAIN outbox', i \in 1 .. given
              PROVE  i \in DOMAIN outbox /\ outbox'[i] = outbox[i]
          <5>1. i # n
            BY <1>1, <2>1, <4>2
          <5> QED BY <2>2, <5>1
        <4> QED BY <2>6, <3>2, <4>1, <4>2, ReadsKept
      <3> QED BY <3>1, <3>2
    <2>8. ASSUME NEW b \in Alerts, NEW e \in 1 .. AlertDays PROVE TriggerOK(b, e)'
      <3>1. TriggerOK(b, e) /\ triggered[<<b, e>>] \in Nat
        BY <1>1 DEF AlertInv
      <3>2. Known(<<b, e>>) => Known(<<b, e>>)'
        BY <2>2 DEF Known
      <3>3. CASE b = a /\ e = d
        <4>1. Known(<<a, d>>)'
          <5>1. KeyOf(NewEvent(a, d)) = <<a, d>>
            BY DEF KeyOf, NewEvent
          <5> QED BY <2>2, <5>1 DEF Known
        <4>2. a \notin unborn
          BY <2>1 DEF AlertInv, AlertTypeOK
        <4>3. triggered[<<a, d>>] = 0
          BY <2>1, <3>1, <3>3 DEF TriggerOK
        <4>4. triggered'[<<a, d>>] = 1
          BY <1>1, <2>1, <4>3
        <4> QED BY <1>4, <3>3, <4>1, <4>2, <4>4 DEF TriggerOK
      <3>4. CASE ~(b = a /\ e = d)
        <4>1. triggered'[<<b, e>>] = triggered[<<b, e>>]
          BY <1>1, <2>1, <3>4
        <4> QED BY <1>4, <3>1, <3>2, <4>1 DEF TriggerOK
      <3> QED BY <3>3, <3>4
    <2>9. triggered' \in [Alerts \X (1 .. AlertDays) -> Nat]
      BY <1>1, <2>1
    <2>10. given' \in Nat
      BY <1>1, <2>1
    <2> QED BY <1>4, <2>2, <2>4, <2>5, <2>6, <2>7, <2>8, <2>9, <2>10
        DEF AlertInv, AlertTypeOK, Standing
  <1> QED BY <1>5, <1>6

\* A batch is read as the rows stand.
LEMMA CollectStep ==
  ASSUME AlertInv, NEW r \in Checks, Collect(r)
  PROVE  AlertInv'
  <1>1. /\ DOMAIN outbox \subseteq 1 .. given /\ outbox \in [DOMAIN outbox -> Events]
        /\ deaths \in 0 .. MaxDeaths /\ \A i \in DOMAIN outbox : EventOK(outbox[i])
        /\ MaxNotify \in Nat \ {0}
    BY AlertAssumption DEF AlertInv, AlertTypeOK
  <1>2. UNCHANGED <<unborn, alerts, priceDay, outbox, given, triggered, deaths>>
    BY DEF Collect
  <1>3. CASE Pending = {}
    <2>1. Resting \in Standing /\ Resting.step \notin {"post", "mark"}
      BY DEF Standing, Resting
    <2> QED BY <1>1, <1>2, <1>3, <2>1, NothingRead, QuietStep DEF Collect
  <1>4. CASE Pending # {}
    <2>1. PICK b : b = [i \in Oldest |-> outbox[i].attempts]
      OBVIOUS
    <2>2. /\ DOMAIN b = Oldest /\ Oldest \subseteq DOMAIN outbox
          /\ \A i \in Oldest : /\ b[i] = outbox[i].attempts /\ outbox[i].status = "pending"
                               /\ outbox[i] \in Events
      BY <1>1, <2>1 DEF Oldest, Pending
    <2>3. b \in Batches
      <3>1. b \in [Oldest -> 0 .. MaxNotify]
        BY <2>1, <2>2 DEF Events
      <3>2. Oldest \in SUBSET (1 .. given)
        BY <1>1, <2>2
      <3> QED BY <3>1, <3>2 DEF Batches
    <2>4. PICK x : x = [step |-> "post", batch |-> b]
      OBVIOUS
    <2>5. x.step = "post" /\ x.batch = b
      BY <2>4
    <2>6. x \in Standing
      BY <2>3, <2>4 DEF Standing
    <2>7. ASSUME NEW i \in DOMAIN b PROVE ReadOK(x, i)'
      <3>1. EventOK(outbox[i]) /\ outbox[i] \in Events /\ outbox[i].status = "pending"
        BY <1>1, <2>2
      <3>2. b[i] < MaxNotify
        BY <2>2, <3>1 DEF EventOK
      <3>3. HasUrl => b[i] <= outbox[i].posts
        BY <2>2, <3>1 DEF EventOK
      <3> QED BY <1>2, <2>5, <3>2, <3>3 DEF ReadOK
    <2>8. ReadsOK(x)'
      BY <2>5, <2>7 DEF ReadsOK
    <2>9. check' = [check EXCEPT ![r] = x]
      BY <1>4, <2>1, <2>4 DEF Collect
    <2> QED BY <1>1, <1>2, <2>6, <2>8, <2>9, QuietStep
  <1> QED BY <1>3, <1>4

\* A row a request was made for.
LEMMA PostedRow ==
  ASSUME NEW e \in Events, NEW ok \in BOOLEAN
  PROVE  LET p == Posted(e, ok)
         IN  /\ p \in Events /\ KeyOf(p) = KeyOf(e)
             /\ p.posts = IF e.posts < MaxNotify THEN e.posts + 1 ELSE e.posts
             /\ p.heard = (e.heard \/ ok)
             /\ p.status = e.status /\ p.attempts = e.attempts
             /\ e.posts \in 0 .. MaxNotify
  <1> DEFINE v == IF e.posts < MaxNotify THEN e.posts + 1 ELSE e.posts
             h == e.heard \/ ok
             p == [e EXCEPT !.posts = v, !.heard = h]
  <1>1. e.posts \in 0 .. MaxNotify /\ MaxNotify \in Nat
    BY AlertAssumption DEF Events
  <1>2. v \in 0 .. MaxNotify /\ h \in BOOLEAN
    BY <1>1
  <1>3. Posted(e, ok) = p
    BY DEF Posted
  <1> HIDE DEF v, h
  <1>4. p \in Events
    BY <1>2 DEF Events
  <1>5. /\ p.alert = e.alert /\ p.day = e.day /\ p.status = e.status
        /\ p.attempts = e.attempts /\ p.posts = v /\ p.heard = h
    BY DEF Events
  <1> HIDE DEF p
  <1> QED BY <1>1, <1>3, <1>4, <1>5 DEF KeyOf, v, h

\* A row that was marked.
LEMMA MarkedRow ==
  ASSUME NEW e \in Events, NEW read \in Nat, read < MaxNotify, NEW ok \in BOOLEAN
  PROVE  LET m == Marked(e, read, ok)
         IN  /\ m \in Events /\ KeyOf(m) = KeyOf(e)
             /\ m.posts = e.posts /\ m.heard = e.heard
             /\ m.attempts = read + 1
             /\ m.status = IF ok THEN "sent"
                           ELSE IF read + 1 >= MaxNotify THEN "failed" ELSE e.status
  <1> DEFINE v == read + 1
             st == IF ok THEN "sent" ELSE IF read + 1 >= MaxNotify THEN "failed" ELSE e.status
             m == [e EXCEPT !.attempts = v, !.status = st]
  <1>1. v \in 0 .. MaxNotify
    BY AlertAssumption
  <1>2. st \in {"pending", "sent", "failed"}
    BY DEF Events
  <1>3. Marked(e, read, ok) = m
    BY DEF Marked
  <1> HIDE DEF v, st
  <1>4. m \in Events
    BY <1>1, <1>2 DEF Events
  <1>5. /\ m.alert = e.alert /\ m.day = e.day /\ m.status = st /\ m.attempts = v
        /\ m.posts = e.posts /\ m.heard = e.heard
    BY DEF Events
  <1> HIDE DEF m
  <1> QED BY <1>3, <1>4, <1>5 DEF KeyOf, v, st

\* Rows that change while the table keeps its shape.
LEMMA RowsChange ==
  ASSUME AlertInv, NEW r \in Checks, NEW x \in Standing,
         check' = [check EXCEPT ![r] = x], ReadsOK(x)',
         UNCHANGED <<unborn, alerts, priceDay, given, triggered, deaths>>,
         DOMAIN outbox' = DOMAIN outbox, outbox' \in [DOMAIN outbox -> Events],
         \A i \in DOMAIN outbox :
           /\ KeyOf(outbox'[i]) = KeyOf(outbox[i])
           /\ outbox'[i].posts >= outbox[i].posts
           /\ outbox[i].heard => outbox'[i].heard
           /\ EventOK(outbox'[i])
  PROVE  AlertInv'
  <1>1. Standing' = Standing
    BY DEF Standing, Batches
  <1>2. /\ check' \in [Checks -> Standing'] /\ check'[r] = x
        /\ \A q \in Checks : q # r => check'[q] = check[q]
    BY <1>1, RunGoes
  <1>3. \A i \in DOMAIN outbox : outbox'[i].posts \in Nat
    BY AlertAssumption DEF Events
  <1>4. ASSUME NEW q \in Checks PROVE ReadsOK(check[q])'
    <2>1. CASE q = r
      BY <1>2, <2>1
    <2>2. CASE q # r
      BY <1>2, <1>3, <2>2, ReadsKept
    <2> QED BY <2>1, <2>2
  <1>5. ASSUME NEW a \in Alerts, NEW d \in 1 .. AlertDays PROVE TriggerOK(a, d)'
    <2>1. Known(<<a, d>>) => Known(<<a, d>>)'
      BY DEF Known, KeyOf
    <2> QED BY <2>1 DEF AlertInv, TriggerOK
  <1>6. \A i \in DOMAIN outbox' : EventOK(outbox[i])'
    BY DEF EventOK
  <1> QED BY <1>2, <1>4, <1>5, <1>6 DEF AlertInv, AlertTypeOK, Standing

\* The request counts for every event of the batch, and its answer for every one too.
LEMMA PostStep ==
  ASSUME AlertInv, NEW r \in Checks, Post(r)
  PROVE  AlertInv'
  <1>1. /\ outbox \in [DOMAIN outbox -> Events]
        /\ \A i \in DOMAIN outbox : EventOK(outbox[i])
        /\ MaxNotify \in Nat \ {0} /\ HasUrl \in BOOLEAN
        /\ check[r] \in Standing /\ check[r].step = "post"
    BY AlertAssumption DEF AlertInv, AlertTypeOK, Standing, Post
  <1>2. PICK b : b = check[r].batch
    OBVIOUS
  <1>3. PICK ok \in BOOLEAN :
          /\ check' = [check EXCEPT ![r] = [step |-> "mark", batch |-> b, ok |-> ok \/ ~HasUrl]]
          /\ outbox' = [i \in DOMAIN outbox |->
               IF HasUrl /\ i \in DOMAIN b THEN Posted(outbox[i], ok) ELSE outbox[i]]
    BY <1>2 DEF Post
  <1>4. UNCHANGED <<unborn, alerts, priceDay, given, triggered, deaths>>
    BY DEF Post
  <1>5. /\ b \in Batches /\ \A i \in DOMAIN b : b[i] \in 0 .. MaxNotify
    BY <1>1, <1>2, BatchType
  <1>6. \A i \in DOMAIN b : /\ b[i] < MaxNotify
                            /\ HasUrl /\ i \in DOMAIN outbox => b[i] <= outbox[i].posts
    <2>1. ReadsOK(check[r])
      BY DEF AlertInv
    <2> QED BY <1>1, <1>2, <2>1 DEF ReadsOK, ReadOK
  <1>7. PICK x : x = [step |-> "mark", batch |-> b, ok |-> ok \/ ~HasUrl]
    OBVIOUS
  <1>8. x.step = "mark" /\ x.batch = b /\ x.ok = (ok \/ ~HasUrl)
    BY <1>7
  <1>9. x \in Standing
    <2>1. (ok \/ ~HasUrl) \in BOOLEAN
      OBVIOUS
    <2>2. x \in [step : {"mark"}, batch : Batches, ok : BOOLEAN]
      BY <1>5, <1>7, <2>1
    <2> QED BY <2>2 DEF Standing
  <1>10. /\ DOMAIN outbox' = DOMAIN outbox
         /\ \A i \in DOMAIN outbox : outbox'[i] =
              IF HasUrl /\ i \in DOMAIN b THEN Posted(outbox[i], ok) ELSE outbox[i]
    BY <1>3
  <1>11. ASSUME NEW i \in DOMAIN outbox, NEW p, p = Posted(outbox[i], ok)
         PROVE  /\ p \in Events /\ KeyOf(p) = KeyOf(outbox[i])
                /\ p.posts = IF outbox[i].posts < MaxNotify THEN outbox[i].posts + 1
                             ELSE outbox[i].posts
                /\ p.heard = (outbox[i].heard \/ ok)
                /\ p.status = outbox[i].status /\ p.attempts = outbox[i].attempts
                /\ outbox[i].posts \in 0 .. MaxNotify
    BY <1>1, <1>11, PostedRow
  <1>12. outbox' \in [DOMAIN outbox -> Events]
    <2>1. \A i \in DOMAIN outbox : outbox'[i] \in Events
      BY <1>1, <1>10, <1>11
    <2> QED BY <1>3, <2>1
  <1>13. ASSUME NEW i \in DOMAIN outbox
         PROVE  /\ KeyOf(outbox'[i]) = KeyOf(outbox[i])
                /\ outbox'[i].posts >= outbox[i].posts
                /\ outbox[i].heard => outbox'[i].heard
                /\ EventOK(outbox'[i])
    <2>1. EventOK(outbox[i]) /\ outbox[i].posts \in 0 .. MaxNotify /\ outbox[i].attempts \in Nat
      BY <1>1, <1>11 DEF Events
    <2>2. CASE HasUrl /\ i \in DOMAIN b
      <3>1. outbox'[i] = Posted(outbox[i], ok)
        BY <1>10, <2>2
      <3>2. EventOK(Posted(outbox[i], ok))
        BY <1>1, <1>11, <2>1 DEF EventOK
      <3>3. /\ KeyOf(outbox'[i]) = KeyOf(outbox[i])
            /\ outbox'[i].posts = IF outbox[i].posts < MaxNotify THEN outbox[i].posts + 1
                                  ELSE outbox[i].posts
            /\ outbox'[i].heard = (outbox[i].heard \/ ok)
            /\ outbox[i].posts \in 0 .. MaxNotify
        BY <1>11, <3>1
      <3>4. outbox'[i].posts >= outbox[i].posts
        BY <1>1, <3>3
      <3> QED BY <3>1, <3>2, <3>3, <3>4
    <2>3. CASE ~(HasUrl /\ i \in DOMAIN b)
      BY <1>10, <2>1, <2>3
    <2> QED BY <2>2, <2>3
  <1>14. ReadsOK(x)'
    <2>1. ASSUME NEW i \in DOMAIN b, HasUrl, i \in DOMAIN outbox
          PROVE  b[i] < outbox'[i].posts /\ (x.ok => outbox'[i].heard)
      <3>1. outbox'[i] = Posted(outbox[i], ok)
        BY <1>10, <2>1
      <3>2. b[i] <= outbox[i].posts /\ b[i] < MaxNotify /\ b[i] \in 0 .. MaxNotify
        BY <1>5, <1>6, <2>1
      <3>3. /\ KeyOf(outbox'[i]) = KeyOf(outbox[i])
            /\ outbox'[i].posts = IF outbox[i].posts < MaxNotify THEN outbox[i].posts + 1
                                  ELSE outbox[i].posts
            /\ outbox'[i].heard = (outbox[i].heard \/ ok)
            /\ outbox[i].posts \in 0 .. MaxNotify
        BY <1>11, <2>1, <3>1
      <3>4. b[i] < outbox'[i].posts
        BY <1>1, <3>2, <3>3
      <3>5. x.ok => outbox'[i].heard
        BY <1>8, <2>1, <3>3
      <3> QED BY <3>4, <3>5
    <2> QED BY <1>6, <1>8, <1>10, <2>1 DEF ReadsOK, ReadOK
  <1> QED BY <1>3, <1>4, <1>7, <1>9, <1>10, <1>12, <1>13, <1>14, RowsChange

\* A mark rests on the answer to a request that was made, and on as many requests as it counts.
LEMMA MarkStep ==
  ASSUME AlertInv, NEW r \in Checks, Mark(r)
  PROVE  AlertInv'
  <1>1. /\ outbox \in [DOMAIN outbox -> Events]
        /\ \A i \in DOMAIN outbox : EventOK(outbox[i])
        /\ MaxNotify \in Nat \ {0} /\ HasUrl \in BOOLEAN /\ deaths \in 0 .. MaxDeaths
        /\ check[r] \in Standing /\ check[r].step = "mark"
    BY AlertAssumption DEF AlertInv, AlertTypeOK, Standing, Mark
  <1>2. PICK b, ok : b = check[r].batch /\ ok = check[r].ok
    OBVIOUS
  <1>3. /\ b \in Batches /\ \A i \in DOMAIN b : b[i] \in 0 .. MaxNotify
        /\ ok \in BOOLEAN
    BY <1>1, <1>2, BatchType
  <1>4. \A i \in DOMAIN b :
          /\ b[i] < MaxNotify
          /\ HasUrl /\ i \in DOMAIN outbox => b[i] < outbox[i].posts /\ (ok => outbox[i].heard)
    <2>1. ReadsOK(check[r])
      BY DEF AlertInv
    <2> QED BY <1>1, <1>2, <2>1 DEF ReadsOK, ReadOK
  <1>5. /\ check' = [check EXCEPT ![r] = Resting]
        /\ UNCHANGED <<unborn, alerts, priceDay, given, triggered, deaths>>
    BY DEF Mark
  <1>6. Resting \in Standing /\ Resting.step \notin {"post", "mark"} /\ ReadsOK(Resting)'
    <2>1. Resting \in Standing /\ Resting.step \notin {"post", "mark"}
      BY DEF Standing, Resting
    <2> QED BY <2>1, NothingRead
  <1>7. CASE ~(DOMAIN b \subseteq DOMAIN outbox)
    BY <1>1, <1>2, <1>5, <1>6, <1>7, QuietStep DEF Mark
  <1>8. CASE DOMAIN b \subseteq DOMAIN outbox
    <2>1. /\ DOMAIN outbox' = DOMAIN outbox
          /\ outbox' = [i \in DOMAIN outbox |->
               IF i \in DOMAIN b THEN Marked(outbox[i], b[i], ok) ELSE outbox[i]]
      BY <1>2, <1>8 DEF Mark
    <2>2. ASSUME NEW i \in DOMAIN b
          PROVE  LET e == outbox[i]
                     m == Marked(e, b[i], ok)
                 IN  /\ m \in Events /\ KeyOf(m) = KeyOf(e)
                     /\ m.posts = e.posts /\ m.heard = e.heard
                     /\ EventOK(m)
      <3> DEFINE e == outbox[i]
                 m == Marked(e, b[i], ok)
                 st == IF ok THEN "sent" ELSE IF b[i] + 1 >= MaxNotify THEN "failed" ELSE e.status
      <3>1. e \in Events /\ EventOK(e)
        BY <1>1, <1>8
      <3>2. /\ b[i] < MaxNotify /\ b[i] \in 0 .. MaxNotify
            /\ HasUrl => b[i] < e.posts /\ (ok => e.heard)
        BY <1>3, <1>4, <1>8
      <3> HIDE DEF e
      <3>3. /\ e.alert \in Alerts /\ e.day \in 1 .. AlertDays /\ e.heard \in BOOLEAN
            /\ e.posts \in 0 .. MaxNotify /\ e.status \in {"pending", "sent", "failed"}
            /\ e.attempts \in 0 .. MaxNotify
        BY <3>1 DEF Events
      <3>9. /\ m \in Events /\ KeyOf(m) = KeyOf(e)
            /\ m.status = st /\ m.attempts = b[i] + 1 /\ m.posts = e.posts /\ m.heard = e.heard
        BY <1>3, <3>1, <3>2, MarkedRow
      <3> HIDE DEF m
      <3>10. st = "pending" => b[i] + 1 < MaxNotify
        BY <1>1, <1>3, <3>2, <3>1
      <3>11. HasUrl => b[i] + 1 <= e.posts
        BY <3>2, <3>3
      <3>12. HasUrl /\ st = "sent" => e.heard
        <4>1. CASE ok
          BY <3>2, <4>1
        <4>2. CASE ~ok
          BY <1>3, <3>1, <4>2 DEF EventOK
        <4> QED BY <1>3, <4>1, <4>2
      <3>13. HasUrl /\ st = "failed" => e.posts >= MaxNotify
        <4>1. CASE e.status = "failed"
          BY <3>1, <4>1, <3>11, <3>3, <3>2, <1>1 DEF EventOK
        <4>2. CASE e.status # "failed"
          BY <3>11, <3>3, <3>2, <1>1, <4>2
        <4> QED BY <4>1, <4>2
      <3> HIDE DEF st
      <3>14. EventOK(m)
        BY <3>9, <3>10, <3>11, <3>12, <3>13 DEF EventOK
      <3> QED BY <3>9, <3>14 DEF e, m
    <2>3. ASSUME NEW i \in DOMAIN outbox
          PROVE  /\ outbox'[i] \in Events
                 /\ KeyOf(outbox'[i]) = KeyOf(outbox[i])
                 /\ outbox'[i].posts >= outbox[i].posts
                 /\ outbox[i].heard => outbox'[i].heard
                 /\ EventOK(outbox'[i])
      <3>1. outbox[i] \in Events /\ EventOK(outbox[i]) /\ outbox[i].posts \in Nat
        BY <1>1 DEF Events
      <3>2. CASE i \in DOMAIN b
        <4>1. outbox'[i] = Marked(outbox[i], b[i], ok)
          BY <2>1, <3>2
        <4> QED BY <2>2, <3>1, <3>2, <4>1
      <3>3. CASE i \notin DOMAIN b
        <4>1. outbox'[i] = outbox[i]
          BY <2>1, <3>3
        <4> QED BY <3>1, <4>1
      <3> QED BY <3>2, <3>3
    <2>4. outbox' \in [DOMAIN outbox -> Events]
      BY <2>1, <2>3
    <2> QED BY <1>5, <1>6, <2>1, <2>3, <2>4, RowsChange
  <1> QED BY <1>7, <1>8

\* Every step of the specification keeps the invariant.
LEMMA AlertStays ==
  ASSUME AlertInv, [AlertNext]_alertVars
  PROVE  AlertInv'
  <1>1. CASE UNCHANGED alertVars
    <2>1. \A r \in Checks : ReadsOK(check[r])'
      BY <1>1, ReadsKept, RowsKept DEF alertVars
    <2>2. \A a \in Alerts, d \in 1 .. AlertDays : TriggerOK(a, d)'
      BY <1>1 DEF AlertInv, TriggerOK, Known, alertVars
    <2> QED BY <1>1, <2>1, <2>2, RowsKept DEF AlertInv, AlertTypeOK, Batches, alertVars
  <1>2. CASE AlertNext
    BY <1>2, PricesStep, AlertStep, LookStep, TriggerStep, CollectStep, PostStep, MarkStep
    DEF AlertNext, RunStep
  <1> QED BY <1>1, <1>2

\* No alert has been triggered at first.
LEMMA AlertStart ==
  ASSUME AlertInit
  PROVE  AlertInv
  <1>1. Resting.step \notin {"post", "mark"}
    BY DEF Resting
  <1>2. \A r \in Checks : ReadsOK(check[r])
    BY <1>1 DEF AlertInit, ReadsOK
  <1>3. \A a \in Alerts, d \in 1 .. AlertDays : TriggerOK(a, d)
    BY DEF AlertInit, TriggerOK
  <1>4. AlertTypeOK
    BY AlertAssumption DEF AlertInit, AlertTypeOK
  <1> QED BY <1>2, <1>3, <1>4 DEF AlertInit, AlertInv

(* The invariant behind OutboxHonest: a reported trigger has its event as long *)
(* as its alert exists, and a run that comes back from its await knows of one  *)
(* request more than it had read, whose answer every row of its batch heard.   *)
THEOREM AlertCorrect == AlertSpec => []AlertInv
  <1>1. AlertInit => AlertInv
    BY AlertStart
  <1>2. AlertInv /\ [AlertNext]_alertVars => AlertInv'
    BY AlertStays
  <1> QED BY <1>1, <1>2, PTL DEF AlertSpec

\* What the invariant says of the outbox.
LEMMA OutboxRight ==
  ASSUME AlertInv
  PROVE  OutboxHonest
  <1>1. TriggeredOncePerDay
    <2>1. ASSUME NEW key \in Alerts \X (1 .. AlertDays) PROVE triggered[key] <= 1
      <3>1. PICK a \in Alerts, d \in 1 .. AlertDays : key = <<a, d>>
        OBVIOUS
      <3> QED BY <3>1 DEF AlertInv, TriggerOK
    <2>2. DOMAIN triggered = Alerts \X (1 .. AlertDays)
      BY DEF AlertInv, AlertTypeOK
    <2> QED BY <2>1, <2>2 DEF TriggeredOncePerDay
  <1> QED BY <1>1 DEF AlertInv, EventOK, OutboxHonest, SentWasHeard, FailedWasTried

(* An alert is triggered once a day, an event marked sent was accepted by the *)
(* webhook and one given up was sent MaxNotify times, for any number of runs  *)
(* that overlap, alerts deleted under them and crashes.                       *)
THEOREM OutboxIsHonest == AlertSpec => []OutboxHonest
  <1>1. AlertInv => OutboxHonest
    BY OutboxRight
  <1> QED BY <1>1, AlertCorrect, PTL
=============================================================================
