-------------------------- MODULE MCProviderStartup --------------------------
(* TLC instance of ProviderStartup: providers with configuration files like  *)
(* those in src/bin, and the meaning of such files.                          *)
EXTENDS ProviderStartup, ConfigText

CONSTANTS p1, p2   \* model values of the providers

\* One service that both publish, one method of two and another service.
MCPublished ==
  p1 :> {<<"User", "Login">>, <<"Friend", "List">>} @@
  p2 :> {<<"User", "Login">>, <<"User", "Register">>}

\* src/bin/test.conf, with blanks behind the address, and one with blanks, a
\* comment, a second setting of an option, and the address in a last line that
\* does not end.
File ==
  p1 :> <<"#", "address", "\n", "rpcserverip", "=", "127.0.0.1", " ", " ", "\n",
          "rpcserverport", "=", "8", "0", "\n">> @@
  p2 :> <<" ", "rpcserverport", " ", "=", " ", "9", "\n", "\n",
          "#", "rpcserverip", "=", "old", "\n", "word", "\n",
          "rpcserverport", "=", "7", "\n", "rpcserverip", " ", "=", "127.0.0.1", " ">>

Addresses == [p \in {p1, p2} |-> ServerAddress(LoadConfigFile(File[p]))]
MCAddress(p) == Addresses[p]

MCConfigured(p) ==
  IF p = p1 THEN <<"127.0.0.1", ":", "8", "0">> ELSE <<"127.0.0.1", ":", "9">>

-----------------------------------------------------------------------------
\* All texts of at most n units, and blanks.
Texts(n) == UNION {[1 .. m -> {" ", "\n", "#", "=", "word"}] : m \in 0 .. n}
Blanks == UNION {[1 .. m -> {" "}] : m \in 0 .. 5}

\* A word with blanks around it, and what of a line is such a word.
Around(text, word) ==
  /\ word = <<>> \/ (word[1] # " " /\ word[Len(word)] # " ")
  /\ \E a, b \in Blanks : text = a \o word \o b

\* What a line is meant to set: a key before the first "=", and a value from
\* there to the end of the line, both with blanks around them.  Only a value of
\* nothing but blanks stays as it is before an end of line, where Trim finds
\* nothing else to keep (mprpcconfig.cc:66-78).
Meant(line) ==
  LET texts == {SubSeq(line, i, j) : i \in 1 .. Len(line) + 1, j \in 0 .. Len(line)}
      end == IF line[Len(line)] = "\n" THEN Len(line) - 1 ELSE Len(line)
      IsComment == \E a \in Blanks : \E t \in texts : line = a \o <<"#">> \o t
      Sets(e, s) ==
        /\ line[e] = "=" /\ \A i \in 1 .. e - 1 : line[i] # "="
        /\ Around(SubSeq(line, 1, e - 1), s.key)
        /\ LET rest == SubSeq(line, e + 1, end) IN
             IF rest \in Blanks /\ end < Len(line) THEN s.value = rest
                                                  ELSE Around(rest, s.value)
  IN {s \in [key : texts, value : texts] :
        ~IsComment /\ \E e \in DOMAIN line : Sets(e, s)}

\* A line as fgets reads it: only its last unit may be its end.
Lines(n) == {t \in Texts(n) : t # <<>> /\ \A i \in 1 .. Len(t) - 1 : t[i] # "\n"}

ASSUME SettingIsWhatIsMeant == \A line \in Lines(5) : Setting(line) = Meant(line)

\* A line that does not fit into the buffer is read as several: the rest of a
\* long comment may set an option.
ASSUME LongCommentSets ==
  Load(LoadConfigFile(<<"#">> \o [i \in 1 .. BufSize - 2 |-> "word"]
                        \o <<"rpcserverport", "=", "1", "\n">>),
       <<"rpcserverport">>) = <<"1">>

\* A port that does not fit into a uint16_t wraps around.
ASSUME PortWraps ==
  ServerAddress({[key |-> <<"rpcserverport">>, value |-> <<" ", "1", "3", "0">>]}) =
    <<":", "3", "0">>
=============================================================================
