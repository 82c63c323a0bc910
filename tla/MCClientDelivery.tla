-------------------------- MODULE MCClientDelivery --------------------------
(* ClientDelivery with and without a coordinator, one reconnect attempt and  *)
(* two endpoint objects; MCAxtpClient checks the other options.              *)
EXTENDS ClientDelivery

CONSTANTS e1, e2, e3, none, infinity, k, nokey

MCOptions ==
    [reconnect : BOOLEAN, maxAttempts : {1}, resetBackoffOnSuccess : {TRUE},
     handshakeTimeout : {TRUE}, connectTimeout : {FALSE}]

Policy(policy, ck, previous) ==
    [offlinePolicy |-> policy, coalesceKey |-> ck, coalescePrevious |-> previous]

MCCallOptions ==
    {Policy("fail-fast", nokey, "reject"), Policy("wait-ready", nokey, "reject"),
     Policy("queue", nokey, "reject"), Policy("queue", k, "reject"),
     Policy("queue", k, "drop"), Policy("queue", k, "resolve-with-next")}

Delivery(size, overflow, offline, outboxSize, outboxOverflow) ==
    [maxSize |-> size, overflow |-> overflow, offline |-> offline,
     outboxSize |-> outboxSize, outboxOverflow |-> outboxOverflow]

MCQueueOptions ==
    {Delivery(1, "reject", "queue", 2, "drop-oldest"),
     Delivery(2, "drop-oldest", "queue", 1, "reject"),
     Delivery(0, "drop-oldest", "queue", 1, "drop-newest"),
     Delivery(1, "drop-newest", "fail-fast", 0, "drop-oldest")}
=============================================================================
