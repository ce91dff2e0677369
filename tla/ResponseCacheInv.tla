-------------------------- MODULE ResponseCacheInv --------------------------
(***************************************************************************)
(* The inductive invariant behind ReadYourWritesWhileClosed.               *)
(*                                                                         *)
(* A cached body may be served only while some caller holds a lease on its *)
(* key, a lease is granted only by a request that has just stored a body   *)
(* under the key, and a body is stored only under the key that was current *)
(* before it was fetched.  So it suffices to follow, for each current key, *)
(* how old a body can be that is stored under it, or may still be.         *)
(***************************************************************************)
EXTENDS ResponseCache

\* A key that was computed from the counters now or earlier.
Behind(k) == k.eg <= Effective(k.scope, ClassOf[k.res]) /\ k.gg <= Global

\* No handler, lease or entry has a key of a namespace that does not exist
\* yet: a bump moves the pairs it covers to keys nobody has used.
KeysBehind ==
    /\ \A e \in cache : Behind(e.key)
    /\ \A g \in grants : Behind(g.key)
    /\ \A r \in Reader : rd[r].key # None => Behind(rd[r].key)
    /\ \A x \in Warmer : wm[x].key # None => Behind(wm[x].key)

\* Somebody may serve what is stored under k.
Vouched(k) ==
    \/ \E g \in grants : g.key = k
    \/ \E r \in Reader : rd[r].key = k /\ rd[r].pc = "grant"

\* Nothing stored under k is older than n.
Stored(k, n) == \A e \in cache : e.key = k => e.at >= n

\* Nothing that a running fill may store under k is older than n.
Filling(k, n) ==
    /\ \A r \in Reader :
          rd[r].key = k /\ rd[r].pc \in {"body", "regen", "set"} => rd[r].at >= n
    /\ \A x \in Warmer :
          wm[x].key = k /\ wm[x].pc \in {"recheck", "permit", "set"} => wm[x].at >= n

\* From now on nothing older than n is served under k.
Fresh(k, n) == Filling(k, n) /\ (Vouched(k) => Stored(k, n))

\* The same for the current key of every pair that the row <<rs, rc>> covers.
CoveredFresh(rs, rc, n) ==
    \A s \in Scope, res \in Resource :
        Covers(rs, rc, s, ClassOf[res]) => Fresh(KeyNow(res, s), n)

\* What clients have been told is what they are served.
Quiet ==
    \A s \in Scope, res \in Resource :
        Fresh(KeyNow(res, s), floor[s][ClassOf[res]])

\* Nothing promised or observed lies in the future of PMS.
ClockInv ==
    /\ \A s \in Scope, c \in Class : floor[s][c] <= clock
    /\ \A r \in Reader : rd[r].need <= clock
    /\ \A w \in Writer : wr[w].at <= clock
    /\ \A i \in Invalidator : iv[i].at <= clock

WriterInv(w) ==
    /\ wr[w].pc = "break" =>
          w \in failing \/ CoveredFresh(wr[w].scope, Blank, wr[w].at)
    /\ wr[w].pc = "ack" =>
          unrecovered \/ CoveredFresh(wr[w].scope, Blank, wr[w].at)

InvalidatorInv(i) ==
    /\ iv[i].pc = "break" =>
          i \in failing \/ CoveredFresh(iv[i].rs, iv[i].rc, iv[i].at)
    /\ iv[i].pc \in {"clear", "return"} =>
          unrecovered \/ CoveredFresh(iv[i].rs, iv[i].rc, iv[i].at)

\* A lookup that began while serving was fail-closed.
ReaderInv(r) ==
    rd[r].closed =>
        /\ rd[r].pc = "lease" /\ Current(rd[r].key) =>
              Fresh(rd[r].key, rd[r].need)
        /\ rd[r].pc = "get" /\ Current(rd[r].key) =>
              Filling(rd[r].key, rd[r].need) /\ Stored(rd[r].key, rd[r].need)
        /\ rd[r].pc \in {"reload", "recheck"} /\ Current(rd[r].key) =>
              rd[r].at >= rd[r].need
        /\ rd[r].pc = "hit" => rd[r].at >= rd[r].need

\* While no failed bump is unrecovered, everything clients were told about
\* is what a hit can show them, every handler that is about to tell a client
\* something has made it so, and every running lookup will honour it.
CacheInv ==
    /\ KeysBehind
    /\ ClockInv
    /\ unrecovered \/ Quiet
    /\ \A w \in Writer : WriterInv(w)
    /\ \A i \in Invalidator : InvalidatorInv(i)
    /\ \A r \in Reader : ReaderInv(r)

=============================================================================
