--------------------------- MODULE MCHdhomerunWire ---------------------------
(***************************************************************************)
(* HdhomerunWire with every discovery request of up to three tags, and     *)
(* control requests that get, set and reset, ask for the status, repeat a  *)
(* name, carry a value that fills the length, or are none.                 *)
(***************************************************************************)
EXTENDS HdhomerunWire

Msg(type, tags, cut, crc, size) ==
    [type |-> type, tags |-> tags, cut |-> cut, crc |-> crc, size |-> size]

Other == <<1, 0>>

\* Single words, lists of two, a list and an id of a wrong size, and a tag the
\* parser does not know.
DiscoveryTags ==
    {Tag(TagDeviceType, w) : w \in {TunerWord, Other}}
      \union {Tag(TagMultiType, Other \o WildcardWord), Tag(TagMultiType, TunerWord \o <<0>>)}
      \union {Tag(TagDeviceID, w) : w \in {DeviceID, WildcardWord, Other, <<2>>}}
      \union {Tag(0, <<1, 2, 3, 4, 5>>)}

Whole(tags) == Msg(DiscoverRequest, tags, <<>>, TRUE, "exact")
Damaged(tags) ==
    {[Whole(tags) EXCEPT !.type = GetSetRequest], [Whole(tags) EXCEPT !.crc = FALSE]}
      \union {[Whole(tags) EXCEPT !.size = s] : s \in {"short", "long"}}
      \union {[Whole(tags) EXCEPT !.cut = c] :
                 c \in {<<TagDeviceType>>, <<TagDeviceID, 5>>, <<TagMultiType, 1>>}}

UdpMessages ==
    {Whole(tags) : tags \in SeqOf(DiscoveryTags, 3)}
      \union UNION {Damaged(tags) : tags \in SeqOf(DiscoveryTags, 2)}

Name(key) == Tag(TagGetSetName, encodeCString(key))
Val(text) == Tag(TagGetSetValue, encodeCString(text))
Request(tags) == Msg(GetSetRequest, tags, <<>>, TRUE, "exact")

TcpMessages ==
    { Request(<<Name(ChannelKey)>>),
      Request(<<Name(ChannelKey), Val(<<2>>)>>),
      Request(<<Val(<<5, 5, 5>>), Name(ChannelKey)>>),
      Request(<<Name(ChannelKey), Val(<<>>)>>),
      Request(<<Name(ChannelKey), Tag(TagGetSetValue, [i \in 1 .. 31 |-> 2])>>),
      Request(<<Name(StatusKey)>>),
      Request(<<Name(<<4>>), Name(ProgramKey), Tag(0, <<1>>)>>),
      Request(<<Name(<<4>>)>>),
      Request(<<Val(<<2>>)>>),
      [Request(<<Name(ChannelKey), Val(<<6>>)>>) EXCEPT !.crc = FALSE],
      [Request(<<Name(ChannelKey), Val(<<6>>)>>) EXCEPT !.type = DiscoverRequest],
      [Request(<<Name(ChannelKey), Val(<<6>>)>>) EXCEPT !.cut = <<TagGetSetName, 1>>] }

\* Datagrams are answered one by one, without state: one is enough.
MCMaxMessages == ("udp" :> 1) @@ ("tcp" :> 3)

MCMessages == ("udp" :> UdpMessages) @@ ("tcp" :> TcpMessages)
=============================================================================
