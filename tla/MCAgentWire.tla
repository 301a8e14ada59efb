----------------------------- MODULE MCAgentWire -----------------------------
EXTENDS AgentWire

\* Both sides of every boundary in Utf.inl, and pairs of surrogates.
Boundary == {1, \h7F, \h80, \h7FF, \h800, \hD7FF, \hE000, \hFFFD, \hFFFE, \hFFFF}
Names == {<<>>} \cup {<<u>> : u \in Boundary} \cup {<<u, v>> : u, v \in Boundary}
    \cup {<<h, l>> : h \in {\hD800, \hDBFF}, l \in {\hDC00, \hDFFF}}

watch(name, fault) == [type |-> MessageWatch, id |-> 70000, name |-> name, flags |-> 3,
                       polling |-> 1000, fault |-> fault]
hello(fault) == [type |-> MessageHello, name |-> <<>>, fault |-> fault]
unwatch(fault) == [type |-> MessageUnwatch, id |-> 256, fault |-> fault]
ping(fault) == [type |-> MessagePing, id |-> 1, fault |-> fault]

MCScripts ==
    {<<ping("none"), watch(name, "none")>> : name \in Names}
    \cup {<<hello("none"), watch(<<97, \hD800, \hDC00>>, "none"), unwatch("none")>>}
    \cup {<<unwatch(f), ping("none")>> : f \in {"short", "large", "version"}}
    \cup {<<ping("short"), watch(<<97>>, f)>> : f \in {"short", "large", "version"}}
    \cup {<<hello("short"), [type |-> 99, fault |-> "none"]>>}
=============================================================================
