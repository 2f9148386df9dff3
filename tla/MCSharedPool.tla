---------------------------- MODULE MCSharedPool ----------------------------
EXTENDS SharedPool

\* "a" executes two stations one after the other on the first instance; "b" two
\* independent stations at the same time on both.  They meet on the first one.
Organizations ==
    [o \in {"a", "b"} |->
        IF o = "a"
        THEN [stations |-> <<"s", "t">>, edges |-> {<<"s", "t">>}, latency |-> 1,
              items |-> <<[at |-> 0, service |-> [x \in {"s", "t"} |-> 1]]>>,
              slots |-> <<"i">>]
        ELSE [stations |-> <<"s", "t">>, edges |-> {}, latency |-> 0,
              items |-> <<[at |-> 1, service |-> [x \in {"s", "t"} |-> IF x = "s" THEN 1 ELSE 2]]>>,
              slots |-> <<"i", "j">>]]

\* Two workers compete for "b".
Jobs == [w \in {"u", "v", "w"} |-> IF w = "u" THEN "a" ELSE "b"]

\* Another user of the pool, of lower priority and of higher priority.
Others ==
    {[id |-> <<"x", 1, "s">>, instance |-> "j", owner |-> "x", start |-> 1, end |-> 2,
      priority |-> 200, preempt |-> FALSE],
     [id |-> <<"x", 2, "s">>, instance |-> "i", owner |-> "x", start |-> 2, end |-> 3,
      priority |-> 1, preempt |-> TRUE]}

Failures == {[id |-> "f", instance |-> "i", start |-> 1, until |-> 2, recovered |-> FALSE]}
=============================================================================
