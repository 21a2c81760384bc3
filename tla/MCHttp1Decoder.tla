---------------------------- MODULE MCHttp1Decoder ----------------------------
(* TLC instances of Http1Decoder. *)
EXTENDS Http1Decoder

Msg(status, te, cl, body, pad) ==
    [status |-> status, te |-> te, cl |-> cl, body |-> body, pad |-> pad,
     quote |-> NoQuote]

(* The body is the text of a head with this content-length. *)
Quoting(s, cl) == [s EXCEPT !.quote = cl]

(* Each framing of a response, right and wrong. *)
AllResponses ==
    {Msg("ok", "absent", 2, <<2>>, 0), Msg("empty", "absent", 0, <<>>, 0),
     Msg("ok", "chunked", Absent, <<1, 1>>, 0), Msg("ok", "chunked", Absent, <<Bad>>, 0),
     Msg("interim", "absent", Absent, <<>>, 0), Msg("switch", "absent", Absent, <<>>, 0),
     Quoting(Msg("ok", "other", Absent, <<5>>, 0), 0)}

(* Responses that are well formed. *)
PlainResponses == {Msg("ok", "absent", 1, <<1>>, 0), Msg("empty", "absent", Absent, <<>>, 0)}

(* Each framing of a request. *)
AllRequests ==
    {Msg("none", "absent", Absent, <<>>, 2), Msg("none", "absent", 2, <<2>>, 0),
     Msg("none", "chunked", Absent, <<2>>, 1), Msg("none", "chunked", Absent, <<1>>, 2),
     Msg("none", "other", Absent, <<1>>, 0), Msg("none", "absent", Bad, <<1>>, 0),
     Msg("none", "chunked", 1, <<1>>, 0),
     Quoting(Msg("none", "absent", 5, <<5>>, 0), Absent)}
=============================================================================
