--------------------------- MODULE MCCommandLine ---------------------------
(* Command lines of a few options, with arguments at and past every limit. *)
EXTENDS CommandLine

\* A number all readers agree on, with its unit; one they read differently.
Num(half, suffix) ==
    [kind |-> "number", half |-> half, suffix |-> suffix,
     digits |-> Truncated(half),
     whole |-> IF suffix = "" /\ half % 2 = 0 THEN {half \div 2} ELSE {}]
Mixed(value, digits, whole) ==
    [kind |-> "number", half |-> 2 * value, suffix |-> "", digits |-> digits,
     whole |-> whole]

\* No number at all; a DSCP class; a number past every double's range.
Odd(kind) ==
    [kind |-> kind, half |-> 0, suffix |-> "", digits |-> 0, whole |-> {}]
Class(value) == [Odd("name") EXCEPT !.whole = {value}]
Inf(half) == [Odd("inf") EXCEPT !.half = half]

\* A flag, and an option with each of a set of one-piece arguments.
Flag(o) == {<<o, <<>> >>}
With(o, texts) == {<<o, <<t>> >> : t \in texts}

FlagInputs ==
    UNION {Flag(o) : o \in {"server", "client", "udp", "reverse", "bidir",
                            "gsro", "version4", "version6", "username",
                            "daemon", "sendmmsg"}}

IntInputs ==
    With("time", {Num(0, ""), Num(40, ""), Num(42, ""),
                 Num(2^8 * 2 + 6, "k"), Num(-2, ""), Mixed(15, 3, {})})
      \cup With("omit", {Num(13, ""), Num(14, "")})
      \cup With("parallel", {Num(8, ""), Num(-2, ""), Num(10, "")})
      \cup With("mss", {Num(20, "")})
      \cup With("rcv_timeout", {Num(20, "")})
      \cup With("server_max_duration", {Num(40, "")})

SizeInputs ==
    With("bytes", {Num(0, ""), Num(5, "k"), Num(2^13, ""), Num(-2, ""),
                  Num(2^12 + 2, ""), Mixed(16, 0, {16}),
                  Odd("nan"), Odd("junk")})
      \cup With("blockcount", {Num(6, ""), Num(1, "")})
      \cup With("length", {Num(0, ""), Num(4, ""), Num(6, ""), Num(160, ""),
                           Num(162, ""), Num(200, ""), Num(202, ""),
                           Num(2^8 * 2 + 40, ""), Num(256, ""),
                           Num(50, "k"), Inf(2^14)})
      \cup With("window", {Num(180, ""), Num(-2^10, ""), Odd("nan")})
      \cup With("pacing_timer", {Num(2, ""), Num(-2, "")})

RateInputs ==
    With("bitrate", {Num(0, ""), Num(7, "k"), Num(2^12 - 2, "k")})
      \cup {<<"bitrate", <<Num(8, ""), Num(b, "")>> >> : b \in {0, 20, 22}}
      \cup With("fq_rate", {Num(5, "k"), Num(4, "x")})
      \cup {<<"server_bitrate_limit", <<Num(7, "k"), Num(i, "")>> >> :
              i \in {0, 1, 200}}
      \cup With("interval", {Num(0, ""), Num(1, ""), Odd("nan")})

RestInputs ==
    With("tos", {Num(30, ""), Class(4)})
      \cup With("dscp", {Class(7), Mixed(10, 10, {8}), Num(300, "")})
      \cup With("bind", {Odd("v4"), Odd("v6"), Odd("name")})
      \cup {<<"rsa_public_key_path", <<>> >>, <<"rsa_private_key_path", <<>> >>,
            <<"authorized_users_path", <<>> >>}
      \cup {<<"cntl_ka", <<Num(n, ""), Num(8, ""), Num(c, "")>> >> :
              n \in {0, 20}, c \in {4, 80}}

MCInputs == FlagInputs \cup IntInputs \cup SizeInputs \cup RateInputs \cup RestInputs

\* What TCP_MAXSEG may report: nothing, less than a header, in and above range.
MCMss == {{}, {2}, {40}, {120}}
============================================================================
