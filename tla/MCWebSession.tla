----------------------------- MODULE MCWebSession -----------------------------
(* A browser, and two requests of other devices. *)
EXTENDS WebSession, TLC

CONSTANTS t1, o1, o2

MCTab == {t1}
MCOther == {o1, o2}
MCTabReq == MCTab \X {"flow", "renewal"}
MCReq == MCTabReq \cup MCOther

\* No other device: the browser by itself.
MCNone == {}

\* Wrong passwords; the user on another device, with a mail, an administrator.
Wrong == [kind |-> "login", pw |-> 9]
MCOps == (o1 :> { Wrong })
      @@ (o2 :> { Wrong, [kind |-> "forgot"],
                  [kind |-> "change", old |-> 1, new |-> 2],
                  [kind |-> "update", new |-> 2],
                  [kind |-> "reset", new |-> 2],
                  [kind |-> "remove"] })
MCPassword == {1, 2, 9}
=============================================================================
