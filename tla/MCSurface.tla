----------------------------- MODULE MCSurface -----------------------------
(***************************************************************************)
(* The small integrations that Core's surface is read from: one file with  *)
(* constants and one with two classes and two calls, in either order.      *)
(***************************************************************************)
EXTENDS CoreSurface

Assign(name, value) == [names |-> {name}, value |-> value]
Required(node) == CallOf(<<node>>)
WsCall(args) == [func |-> "websocket_command", args |-> args]
KeyForms == {Required(Str("type")), NameNode("WS_TYPE"), Required(NameNode("WS_TYPE"))}
Values == {Str("supervisor/api"), NameNode("WS_CMD"), Opaque}

ConstFiles ==
    {[assigns |-> <<Assign("WS_TYPE", Str("type")), Assign("WS_CMD", cmd), Assign("URL", Str("/api/hassio"))>>,
      classes |-> <<>>, calls |-> <<>>] : cmd \in {Str("supervisor/subscribe"), Opaque}}

Classes == {<<>>, <<Assign("url", Str("/api/hassio_auth")), Assign("name", Opaque)>>,
            <<Assign("url", NameNode("URL"))>>, <<Assign("url", Str("/auth"))>>, <<Assign("url", Opaque)>>}
Schemas ==
    {DictOf(<<key, value>>) : key \in KeyForms, value \in Values}
    \cup {DictOf(<<Required(Str("data")), Opaque, key, NameNode("WS_CMD")>>) : key \in KeyForms}
    \cup {DictOf(<<Star, NameNode("BASE")>>), NameNode("SCHEMA")}
CallSites == {WsCall(<<schema>>) : schema \in Schemas}
             \cup {WsCall(<<>>), [func |-> "async_register", args |-> <<Opaque>>]}

ApiFiles == {[assigns |-> <<>>, classes |-> <<a, b>>, calls |-> <<c, d>>] :
                a, b \in Classes, c, d \in CallSites}

SurfaceInit ==
    \/ CsInit(<<>>)
    \/ \E const \in ConstFiles, api \in ApiFiles :
          \E checkout \in {<<const, api>>, <<api, const>>} : CsInit(checkout) /\ OneMeaning
=============================================================================
