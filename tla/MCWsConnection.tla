--------------------------- MODULE MCWsConnection ---------------------------
EXTENDS WsConnection

Line(name, value) == <<[name |-> name, value |-> value], CR, LF>>

\* The key once with and once without a blank; other headers around it.
MCRequests ==
  { Line("GET", <<>>) \o Line("Sec-WebSocket-Key", <<" ", "k">>)
      \o Line("Upgrade", <<"w">>) \o <<CR, LF>>,
    Line("GET", <<>>) \o Line("Host", <<" ", "h">>)
      \o Line("Sec-WebSocket-Key", <<"k">>) \o <<CR, LF>> }

F(fin, op, mask, form, data) ==
  [fin |-> fin, op |-> op, mask |-> mask, form |-> form, data |-> data]

MCFrameSet ==
  { F(1, 1, 1, 7, <<65>>), F(1, 2, 1, 7, <<>>),
    F(0, 1, 1, 16, <<200, 5>>), F(1, 0, 1, 64, <<1, 2, 3, 4, 250>>),
    F(1, 9, 1, 7, <<7>>), F(1, 10, 1, 7, <<8>>), F(1, 10, 1, 7, <<>>),
    F(1, 8, 1, 7, <<>>), F(1, 8, 1, 7, <<3, 232>>),
    F(1, 1, 0, 7, <<1, 2, 3, 4, 5>>) }

MCClientKey == <<"k">>
MCKey == <<1, 128, 3, 255>>
=============================================================================
