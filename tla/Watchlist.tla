------------------------------- MODULE Watchlist -------------------------------
(***************************************************************************)
(* The watchlist and its groups (api/v1/watchlist.py), with ensure_stock   *)
(* of services/sync_service.py.  Every request reads, decides, and commits  *)
(* later; requests overlap.  The sync that follows is in PriceSync.        *)
(***************************************************************************)
EXTENDS FiniteSets, Functions

CONSTANTS
  Markets,
  Symbols, Market,  \* stocks, and the market of each
  Groups, Names,    \* ids of groups, each used once; their names
  NoGroup,
  Requests          \* handlers that may run at the same time

ASSUME WatchAssumption == NoGroup \notin Groups /\ Market \in [Symbols -> Markets]

VARIABLES
  listed,         \* rows of stocks
  items,          \* watchlists: stock |-> its entry
  groups,         \* watch_groups: id |-> market and name
  fresh,          \* ids of groups not used yet
  request         \* per request, the locals of its handler

watchVars == <<listed, items, groups, fresh, request>>

Watched == DOMAIN items
NewItem == [group |-> NoGroup, managed |-> FALSE]
Waiting == [step |-> "none"]
Put(f, x, v) == [y \in DOMAIN f \cup {x} |-> IF y = x THEN v ELSE f[y]]
Does(r, x) == request' = [request EXCEPT ![r] = x]
Named(m, n) == {g \in DOMAIN groups : groups[g].market = m /\ groups[g].name = n}

\* add_watch calls ensure_stock: an unknown symbol is looked up at the provider.
Ensure(r, s) ==
  /\ request[r] = Waiting
  /\ Does(r, [step |-> IF s \in listed THEN "look" ELSE "search", stock |-> s])
  /\ UNCHANGED <<listed, items, groups, fresh>>

\* ensure_stock inserts the stock, or answers with the row somebody else has inserted.
ListStock(r) ==
  /\ request[r].step = "search"
  /\ \/ listed' = listed \cup {request[r].stock} /\ Does(r, [request[r] EXCEPT !.step = "look"])
     \/ UNCHANGED listed /\ Does(r, Waiting)         \* no such symbol: 404
  /\ UNCHANGED <<items, groups, fresh>>

LookForItem(r) ==
  /\ request[r].step = "look"
  /\ Does(r, [request[r] EXCEPT !.step = IF request[r].stock \in Watched THEN "enqueue" ELSE "insert"])
  /\ UNCHANGED <<listed, items, groups, fresh>>

\* uq_watchlist_stock: an entry somebody else made meanwhile is as good.
InsertItem(r) ==
  /\ request[r].step = "insert"
  /\ items' = IF request[r].stock \in Watched THEN items ELSE Put(items, request[r].stock, NewItem)
  /\ Does(r, [request[r] EXCEPT !.step = "enqueue"])
  /\ UNCHANGED <<listed, groups, fresh>>

\* The first sync is left to the job queue, and a failure to enqueue it is only logged.
Enqueue(r) ==
  /\ request[r].step = "enqueue"
  /\ Does(r, Waiting)
  /\ UNCHANGED <<listed, items, groups, fresh>>

\* _validate_group; None moves the entry out of its group.
Valid(m) == {g \in DOMAIN groups : groups[g].market = m} \cup {NoGroup}

\* reorder_watchlist loads entries of one market and checks the group of each.
Reorder(r) ==
  /\ request[r] = Waiting
  /\ \E moved \in SUBSET Watched \ {{}}, m \in Markets :
       /\ \A s \in moved : Market[s] = m
       /\ \E put \in [moved -> Valid(m)] :
            Does(r, [step |-> "place", loaded |-> Restrict(items, moved), group |-> put, ask |-> {}])
  /\ UNCHANGED <<listed, items, groups, fresh>>

\* patch_watch: the hands the entry is in, its group, or both; ask = {} leaves the hands.
Patch(r, s) ==
  /\ request[r] = Waiting /\ s \in Watched
  /\ \E g \in Valid(Market[s]) \cup {items[s].group}, ask \in {{}, {TRUE}, {FALSE}} :
       Does(r, [step |-> "place", loaded |-> Restrict(items, {s}),
                group |-> [x \in {s} |-> g], ask |-> ask])
  /\ UNCHANGED <<listed, items, groups, fresh>>

\* Mutant: the whole row is written back as it was loaded.
WholeRow(old, x, s) ==
  [group |-> x.group[s], managed |-> IF x.ask = {} THEN x.loaded[s].managed ELSE TRUE \in x.ask]

\* Only columns that differ from what was loaded are written.
Regroups(x, s) == x.group[s] # x.loaded[s].group
Hands(x, s) == x.ask # {} /\ x.ask # {x.loaded[s].managed}

Changed(old, x, s) ==
  [group |-> IF Regroups(x, s) THEN x.group[s] ELSE old.group,
   managed |-> IF Hands(x, s) THEN TRUE \in x.ask ELSE old.managed]

Touches(x, s) == s \in DOMAIN x.loaded /\ (Regroups(x, s) \/ Hands(x, s))

\* Mutant: no foreign key from the entry to its group.
NoKey(x) == TRUE

\* The foreign key of the groups entries are put into.
GroupThere(x) ==
  \A s \in DOMAIN x.loaded : Regroups(x, s) => x.group[s] \in DOMAIN groups \cup {NoGroup}

\* All entries of the request or none: a group deleted meanwhile fails the COMMIT.
CommitPlace(r) ==
  LET x == request[r] IN
  /\ x.step = "place"
  /\ items' = IF GroupThere(x)
              THEN [s \in Watched |-> IF s \in DOMAIN x.loaded THEN Changed(items[s], x, s) ELSE items[s]]
              ELSE items
  /\ Does(r, Waiting)
  /\ UNCHANGED <<listed, groups, fresh>>

\* remove_watch.  A request that was to write the row fails: its UPDATE finds none.
RemoveItem(s) ==
  /\ s \in Watched
  /\ items' = Restrict(items, Watched \ {s})
  /\ request' = [r \in Requests |->
       CASE request[r].step = "place" /\ Touches(request[r], s) -> Waiting
         [] request[r].step = "place" /\ ~Touches(request[r], s) ->
              [request[r] EXCEPT !.loaded = Restrict(@, DOMAIN @ \ {s})]
         [] request[r].step = "ungroup" /\ s \in request[r].loaded -> Waiting
         [] OTHER -> request[r]]
  /\ UNCHANGED <<listed, groups, fresh>>

\* create_group and rename_group look for the name first.
LookForName(r) ==
  /\ request[r] = Waiting
  /\ \E n \in Names, m \in Markets, g \in {NoGroup} \cup DOMAIN groups :
       /\ IF g = NoGroup THEN fresh # {} ELSE groups[g].market = m
       /\ Named(m, n) \subseteq {g}
       /\ Does(r, [step |-> "name", id |-> g, market |-> m, name |-> n])
  /\ UNCHANGED <<listed, items, groups, fresh>>

\* uq_group_market_name.
NameFree(x) == Named(x.market, x.name) \subseteq {x.id}

CommitName(r) ==
  LET x == request[r]
      new == x.id = NoGroup
      g == IF new THEN CHOOSE i \in fresh : TRUE ELSE x.id
  IN
  /\ x.step = "name" /\ (new => fresh # {})
  /\ IF NameFree(x) /\ (new \/ g \in DOMAIN groups)
     THEN /\ groups' = Put(groups, g, [market |-> x.market, name |-> x.name])
          /\ fresh' = fresh \ {g}
     ELSE UNCHANGED <<groups, fresh>>
  /\ Does(r, Waiting)
  /\ UNCHANGED <<listed, items>>

\* delete_group reads the entries it has to take out of the group.
LookForMembers(r) ==
  /\ request[r] = Waiting
  /\ \E g \in DOMAIN groups :
       Does(r, [step |-> "ungroup", id |-> g, loaded |-> {s \in Watched : items[s].group = g}])
  /\ UNCHANGED <<listed, items, groups, fresh>>

\* The foreign key again: an entry that came into the group meanwhile keeps it.
NobodyLeft(x) == \A s \in Watched \ x.loaded : items[s].group # x.id

CommitDelete(r) ==
  LET x == request[r] IN
  /\ x.step = "ungroup"
  /\ IF NobodyLeft(x) /\ x.id \in DOMAIN groups
     THEN /\ groups' = Restrict(groups, DOMAIN groups \ {x.id})
          /\ items' = [s \in Watched |->
               IF s \in x.loaded THEN [items[s] EXCEPT !.group = NoGroup] ELSE items[s]]
     ELSE UNCHANGED <<groups, items>>
  /\ Does(r, Waiting)
  /\ UNCHANGED <<listed, fresh>>

RequestDies(r) ==
  /\ request[r] # Waiting
  /\ Does(r, Waiting)
  /\ UNCHANGED <<listed, items, groups, fresh>>

WatchInit ==
  /\ listed = {} /\ items = [s \in {} |-> NewItem] /\ groups = [g \in {} |-> NoGroup]
  /\ fresh = Groups /\ request = [r \in Requests |-> Waiting]

WatchNext ==
  \/ \E r \in Requests :
       \/ \E s \in Symbols : Ensure(r, s) \/ Patch(r, s)
       \/ ListStock(r) \/ LookForItem(r) \/ InsertItem(r) \/ Enqueue(r)
       \/ Reorder(r) \/ CommitPlace(r)
       \/ LookForName(r) \/ CommitName(r) \/ LookForMembers(r) \/ CommitDelete(r)
       \/ RequestDies(r)
  \/ \E s \in Symbols : RemoveItem(s)

WatchSpec == WatchInit /\ [][WatchNext]_watchVars

-----------------------------------------------------------------------------
Item == [group : Groups \cup {NoGroup}, managed : BOOLEAN]
GroupRow == [market : Markets, name : Names]

WatchTypeOK ==
  /\ listed \subseteq Symbols /\ fresh \subseteq Groups
  /\ Watched \subseteq listed /\ \A s \in Watched : items[s] \in Item
  /\ DOMAIN groups \subseteq Groups \ fresh /\ \A g \in DOMAIN groups : groups[g] \in GroupRow
  /\ \A r \in Requests : request[r].step \in
       {"none", "search", "look", "insert", "enqueue", "place", "name", "ungroup"}

(* An entry is in a group that exists and is of its market, although the group is   *)
(* validated before the entry is written and may be deleted in between              *)
(* (watchlist.py:201, :216), and a deletion empties the group it has read           *)
(* (watchlist.py:111).                                                              *)
GroupsFit ==
  \A s \in Watched : items[s].group # NoGroup =>
    items[s].group \in DOMAIN groups /\ groups[items[s].group].market = Market[s]

(* No two groups of a market have one name, however creations and renamings that    *)
(* each found it free overlap (watchlist.py:70, :92).                               *)
NamesUnique == \A g, h \in DOMAIN groups : groups[g] = groups[h] => g = h

(* Every entry fits its group and every name is given once, whatever overlaps.      *)
TablesAgree == GroupsFit /\ NamesUnique

AsksFor(x, s, hands) == x.step = "place" /\ s \in DOMAIN x.loaded /\ x.ask = {hands}

(* Handing an entry to the AI or taking it back is decided by a patch of that entry *)
(* that asks for it, at its COMMIT: neither a reordering of the whole list that     *)
(* loaded the entry before (watchlist.py:217) nor any other request undoes it.      *)
OnlyPatchDecides ==
  [][\A s \in Watched \cap DOMAIN items' :
       items'[s].managed # items[s].managed =>
         \E r \in Requests : request'[r] = Waiting /\ AsksFor(request[r], s, items'[s].managed)]_watchVars
=============================================================================
