------------------------------ MODULE MCRemote ------------------------------
(* Instances of Remote for TLC: agent a, with a paired console, and agent b. *)
EXTENDS Remote

CONSTANTS a, b,
          add, accept, block, unblock, say, approve, prepare, ask1, ask2, look

Requested == {add, accept, block, unblock, say, approve, prepare, ask1, ask2, look}
Asks == [r \in Request |->
    [kind |-> CASE r = add -> "add" [] r = accept -> "accept" [] r = block -> "block"
                [] r = unblock -> "unblock" [] r = say -> "send" [] r = approve -> "approve"
                [] r = prepare -> "act" [] r \in {ask1, ask2} -> "turn" [] r = look -> "read",
     n |-> IF r = prepare THEN 0 ELSE 1]]

\* What may come up together: between the owners,
Crossing == {<<a, "contact">>, <<a, "respond">>, <<b, "contact">>}
Repeated == {<<a, "contact">>, <<a, "again">>, <<b, "respond">>, <<b, "uninvited">>}
Receiving == {<<a, "contact">>, <<b, "respond">>, <<b, "chat">>, <<a, "block">>}
Strange == {<<a, "contact">>, <<b, "respond">>, <<b, "uninvited">>, <<a, "block">>}
Sending == {<<a, "contact">>, <<b, "respond">>, <<a, "chat">>, <<a, "block">>}
\* and with the console.
Befriended == {<<b, "contact">>, accept, <<a, "crash">>}
Agreeing == {<<b, "contact">>, <<a, "respond">>, accept}
Blocking == {<<b, "contact">>, <<b, "chat">>, <<a, "respond">>, block}
Unblocking == {<<b, "contact">>, <<a, "respond">>, <<a, "block">>, unblock}
Adding == {add, look, <<b, "respond">>, <<a, "crash">>}
Saying == {<<b, "contact">>, <<a, "respond">>, say, <<a, "crash">>}
Approving == {<<b, "contact">>, <<b, "chat">>, <<a, "respond">>, approve}
Preparing == {prepare, <<b, "respond">>, <<a, "crash">>, <<a, "revoke">>}
Asking == {ask1, ask2, <<a, "crash">>}
Revoking == {ask1, <<a, "crash">>, <<a, "revoke">>, <<a, "deadline">>}

Everything == {Crossing, Repeated, Receiving, Strange, Sending, Befriended, Agreeing, Blocking,
               Unblocking, Adding, Saying, Approving, Preparing, Asking, Revoking}
=============================================================================
