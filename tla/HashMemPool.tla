----------------------------- MODULE HashMemPool -----------------------------
(***************************************************************************)
(* The hash-indexed pool of src/containers/hash_mem_pool.h: a FixedMemPool *)
(* of HashNodes (the pool's variables and actions, shared through an      *)
(* INSTANCE) and, in front of it in the same region, a HashHeader and a    *)
(* bucket array; each bucket heads a chain of pool handles through the    *)
(* nodes' `next` field.  A node's key is a model value; VALUE and the      *)
(* extend bytes are not modelled.                                          *)
(*                                                                         *)
(* The region is attached once by init(mem, max_node, bucket_num,          *)
(* mem_size, check = false) with a mem_size from Regions; clear() runs the *)
(* same init again over calc_mem_size bytes.                               *)
(***************************************************************************)
EXTENDS Naturals, FiniteSets, Sequences, Functions

CONSTANTS
  MaxNum,    \* max_node
  TSize,     \* the pool's aligned node size: align_bytes(sizeof(HashNode))
  Buckets,   \* bucket_num
  Keys,      \* the keys callers use
  Hash,      \* Hash[k]: HASH{}(k) % bucket_num
  NoKey,
  Regions    \* the mem_size values callers pass to init

VARIABLES
  links, used, raw, reclaim, call, arg, result,   \* the FixedMemPool
  buckets,   \* m_buckets
  key,       \* key[h]: HashNode::first of node h
  next,      \* next[h]: HashNode::next of node h
  region,    \* the mem_size init accepted
  last       \* the last call: its key and what it returned

poolVars == <<links, used, raw, reclaim, call, arg, result>>
vars == <<links, used, raw, reclaim, call, arg, result, buckets, key, next, region, last>>

P == INSTANCE FixedMemPool

Bkt == 0 .. Buckets - 1
Idx == 1 .. MaxNum

(* The layout of the region (64-bit): HashHeader (2 size_t), the buckets, *)
(* then the pool: its MemHeader (11 size_t) and max_node + 1 LinkNodes,    *)
(* aligned, then the nodes.                                                *)
AlignUp(x) == ((x + 7) \div 8) * 8
PoolNeed == AlignUp(88 + (MaxNum + 1) * 16) + MaxNum * TSize
CalcMemSize == 16 + 8 * Buckets + PoolNeed
SlotEnd(h) == 16 + 8 * Buckets + AlignUp(88 + (MaxNum + 1) * 16) + h * TSize

Ret(op, k, idx, ok) == last' = [op |-> op, key |-> k, idx |-> idx, ok |-> ok]

(* init(mem, ..., mem_size, false): refused when calc_mem_size < mem_size; *)
(* otherwise the buckets are zeroed and the pool initialised over exactly  *)
(* calc_need_size bytes.                                                   *)
Init ==
  /\ \E m \in Regions : ~(CalcMemSize < m) /\ region = m
  /\ P!Init
  /\ buckets = [b \in Bkt |-> 0]
  /\ key = [h \in Idx |-> NoKey] /\ next = [h \in Idx |-> 0]
  /\ last = [op |-> "none", key |-> NoKey, idx |-> 0, ok |-> FALSE]

(* find_ref: walk the chain of the key's bucket (cut after MaxNum nodes). *)
RECURSIVE FindIn(_, _, _)
FindIn(r, k, fuel) ==
  IF r = 0 \/ fuel = 0 THEN 0
  ELSE IF key[r] = k THEN r
  ELSE FindIn(next[r], k, fuel - 1)

FindRefHeadOnly(k) ==
  LET r == buckets[Hash[k]] IN IF r # 0 /\ key[r] = k THEN r ELSE 0

FindRef(k) == FindIn(buckets[Hash[k]], k, MaxNum)

(* insert(key): full() first, then find_ref, then alloc and push the node *)
(* on the front of the bucket's chain.                                     *)
Insert(k) ==
  LET b == Hash[k] IN
  \/ /\ P!IsFull
     /\ Ret("insert", k, 0, FALSE) /\ UNCHANGED <<poolVars, buckets, key, next>>
  \/ /\ ~P!IsFull /\ FindRef(k) # 0
     /\ Ret("insert", k, FindRef(k), FALSE) /\ UNCHANGED <<poolVars, buckets, key, next>>
  \/ /\ ~P!IsFull /\ FindRef(k) = 0
     /\ P!Alloc
     /\ key' = [key EXCEPT ![result'] = k]
     /\ next' = [next EXCEPT ![result'] = buckets[b]]
     /\ buckets' = [buckets EXCEPT ![b] = result']
     /\ Ret("insert", k, result', TRUE)

(* get_or_insert(key): find_ref first, then insert. *)
GetOrInsert(k) ==
  \/ /\ FindRef(k) # 0
     /\ Ret("insert", k, FindRef(k), FALSE) /\ UNCHANGED <<poolVars, buckets, key, next>>
  \/ FindRef(k) = 0 /\ Insert(k)

(* The node whose next is r on the chain from q: erase's `pre`. *)
RECURSIVE PreOf(_, _, _)
PreOf(q, r, fuel) ==
  IF q = 0 \/ fuel = 0 THEN 0 ELSE IF next[q] = r THEN q ELSE PreOf(next[q], r, fuel - 1)

EraseNoUnlink(k) ==
  LET r == FindRef(k) IN
  \/ r = 0 /\ Ret("erase", k, 0, FALSE) /\ UNCHANGED <<poolVars, buckets, key, next>>
  \/ /\ r # 0
     /\ P!Free(P!HandlePtr(r))
     /\ Ret("erase", k, r, FALSE) /\ UNCHANGED <<buckets, key, next>>

(* erase(key) and erase(iterator): unlink the node from its chain and     *)
(* free it to the pool.                                                    *)
Erase(k) ==
  LET b == Hash[k]
      r == FindRef(k)
  IN  \/ r = 0 /\ Ret("erase", k, 0, FALSE) /\ UNCHANGED <<poolVars, buckets, key, next>>
      \/ /\ r # 0
         /\ IF buckets[b] = r
            THEN buckets' = [buckets EXCEPT ![b] = next[r]] /\ UNCHANGED next
            ELSE next' = [next EXCEPT ![PreOf(buckets[b], r, MaxNum)] = next[r]]
                 /\ UNCHANGED buckets
         /\ P!Free(P!HandlePtr(r))
         /\ Ret("erase", k, r, FALSE) /\ UNCHANGED key

(* clear(): init over calc_mem_size bytes: zero buckets, pool init_header. *)
Clear ==
  /\ P!Clear
  /\ buckets' = [b \in Bkt |-> 0]
  /\ Ret("clear", NoKey, 0, FALSE) /\ UNCHANGED <<key, next>>

Next ==
  \/ \E k \in Keys : Insert(k) \/ GetOrInsert(k) \/ Erase(k)
  \/ Clear

Spec == Init /\ [][Next /\ UNCHANGED region]_vars

----------------------------------------------------------------------------
(* Properties *)

RECURSIVE ChainFrom(_, _)
ChainFrom(r, fuel) == IF r = 0 \/ fuel = 0 THEN <<>> ELSE <<r>> \o ChainFrom(next[r], fuel - 1)

Chains == [b \in Bkt |-> ChainFrom(buckets[b], MaxNum + 1)]
Chained == UNION {Range(Chains[b]) : b \in Bkt}
HeldKeys == {key[h] : h \in Chained}

(* The bucket chains and the pool agree: the nodes on the chains are      *)
(* exactly the pool's allocated nodes, each on one chain, the chain of its *)
(* key's bucket; chains end; no key is on them twice.                      *)
ChainsMatchPool ==
  /\ \A b \in Bkt : Len(Chains[b]) <= MaxNum /\ IsInjective(Chains[b])
  /\ \A b, c \in Bkt : b # c => Range(Chains[b]) \cap Range(Chains[c]) = {}
  /\ \A b \in Bkt : \A h \in Range(Chains[b]) : Hash[key[h]] = b
  /\ Chained = Range(P!Active)
  /\ Cardinality(HeldKeys) = Cardinality(Chained)

Abstract == INSTANCE KeyTable WITH Capacity <- MaxNum, FullFirst <- TRUE,
              table <- [k \in HeldKeys |-> FindRef(k)]

(* Spec 8: insert is idempotent in the key (a held key keeps its handle), *)
(* erase(k) then find(k) gives end(), and the number of keys held is the  *)
(* number of inserts that succeeded less the erases that did.              *)
HashRefinement == Abstract!Spec

(* Every node the pool hands out lies inside the region init accepted:  *)
(* init must refuse a mem_size too small for calc_mem_size.               *)
NodesInRegion == \A h \in Range(P!Active) : SlotEnd(h) <= region

=============================================================================
