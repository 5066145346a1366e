------------------------------ MODULE TtlStore ------------------------------
(***************************************************************************)
(* What the hash table of the Mini-KV server promises to its clients: a    *)
(* map from keys to values with expiry times on which every GET, PUT, DEL  *)
(* and STATS takes effect at one instant between its call and its return.  *)
(* There are no buckets, no lists, no lock and no memory here.             *)
(***************************************************************************)
EXTENDS Integers

CONSTANTS Clients, Keys, Values, TTLs,
          Nothing       \* no entry, no request, no answer

Requests ==
  [op : {"GET"}, key : Keys] \cup [op : {"DEL"}, key : Keys] \cup
  [op : {"PUT"}, key : Keys, val : Values, ttl : TTLs] \cup [op : {"STATS"}]

VARIABLES store,        \* the entry of each key, or Nothing
          time,         \* the clock, in seconds
          open,         \* the store has not been closed
          ask,          \* the request each client waits for, or Nothing
          answer        \* its result once it has taken effect, or Nothing

storeVars == <<store, time, open, ask, answer>>

Expiry(ttl)  == IF ttl > 0 THEN time + ttl ELSE 0
Valid(entry) == entry # Nothing /\ (entry.exp = 0 \/ time < entry.exp)

StoreInit ==
  /\ store = [k \in Keys |-> Nothing]
  /\ time = 1
  /\ open = TRUE
  /\ ask = [c \in Clients |-> Nothing]
  /\ answer = [c \in Clients |-> Nothing]

Ask(c) ==
  /\ open = TRUE
  /\ ask[c] = Nothing
  /\ \E r \in Requests : ask' = [ask EXCEPT ![c] = r]
  /\ UNCHANGED <<store, time, open, answer>>

Waits(c, op) == ask[c] # Nothing /\ ask[c].op = op /\ answer[c] = Nothing

(* A key is there until the second at which it expires. *)
Get(c) ==
  /\ Waits(c, "GET")
  /\ LET entry == store[ask[c].key]
     IN  answer' = [answer EXCEPT ![c] = IF Valid(entry) THEN entry.val ELSE "NOT_FOUND"]
  /\ UNCHANGED <<store, time, open, ask>>

Put(c) ==
  /\ Waits(c, "PUT")
  /\ LET r == ask[c]
     IN  store' = [store EXCEPT ![r.key] = [val |-> r.val, exp |-> Expiry(r.ttl)]]
  /\ answer' = [answer EXCEPT ![c] = "OK"]
  /\ UNCHANGED <<time, open, ask>>

(* An expired key can be deleted as long as it has not been purged. *)
Del(c) ==
  /\ Waits(c, "DEL")
  /\ store' = [store EXCEPT ![ask[c].key] = Nothing]
  /\ answer' = [answer EXCEPT ![c] =
                  IF store[ask[c].key] = Nothing THEN "NOT_FOUND" ELSE "OK"]
  /\ UNCHANGED <<time, open, ask>>

Stats(c) ==
  /\ Waits(c, "STATS")
  /\ answer' = [answer EXCEPT ![c] = "STATS"]
  /\ UNCHANGED <<store, time, open, ask>>

Return(c) ==
  /\ answer[c] # Nothing
  /\ ask' = [ask EXCEPT ![c] = Nothing]
  /\ answer' = [answer EXCEPT ![c] = Nothing]
  /\ UNCHANGED <<store, time, open>>

(* Only an entry no GET can see any more disappears by itself. *)
Purge(k) ==
  /\ store[k] # Nothing
  /\ ~Valid(store[k])
  /\ store' = [store EXCEPT ![k] = Nothing]
  /\ UNCHANGED <<time, open, ask, answer>>

Tick ==
  /\ time' = time + 1
  /\ UNCHANGED <<store, open, ask, answer>>

(* The store is closed once, when no client waits for anything. *)
Close ==
  /\ open = TRUE
  /\ \A c \in Clients : ask[c] = Nothing
  /\ open' = FALSE
  /\ store' = [k \in Keys |-> Nothing]
  /\ UNCHANGED <<time, ask, answer>>

StoreNext ==
  \/ \E c \in Clients : Ask(c) \/ Get(c) \/ Put(c) \/ Del(c) \/ Stats(c) \/ Return(c)
  \/ \E k \in Keys : Purge(k)
  \/ Tick
  \/ Close

StoreSpec == StoreInit /\ [][StoreNext]_storeVars

=============================================================================
