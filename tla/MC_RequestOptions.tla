-------------------------- MODULE MC_RequestOptions --------------------------
(* Instances of RequestOptions for TLC.                                    *)
EXTENDS RequestOptions

Flags == {"absent", "true", "false", "bad"}
Numbers == {<< >>, <<0>>, <<60>>, <<-1>>}
Lists == {<< >>, <<2, 0, 5>>, <<7, 1, 4, 3, 6>>}
Chats == {<< >>, <<<<3>>, << >>, <<4, 6>>>>, <<<<1, 8>>, <<2, 5, 9>>>>}

Plain == [chat |-> FALSE, messages |-> << >>, enabled |-> "absent", disable |-> "absent",
          control |-> NoControl, ttl |-> << >>, breakpoints |-> << >>, prefix |-> << >>,
          promptTokens |-> 6, maxTokens |-> << >>, nestedMaxTokens |-> << >>]

(* All combinations of flags, of numbers, and of marks.                    *)
WithFlags ==
  {[Plain EXCEPT !.enabled = e, !.disable = d, !.control.noStoreType = t,
                 !.control.noStore = n, !.control.disable = c] :
     e \in Flags, d \in Flags, t \in BOOLEAN, n \in Flags, c \in Flags}
WithNumbers ==
  {[Plain EXCEPT !.ttl = t, !.control.ttl = c, !.control.ttlSeconds = s,
                 !.maxTokens = m, !.nestedMaxTokens = n] :
     t \in Numbers, c \in Numbers, s \in Numbers, m \in Numbers, n \in Numbers}
WithMarks ==
  {[Plain EXCEPT !.chat = chat, !.messages = m, !.breakpoints = b, !.prefix = p,
                 !.control.breakpoints = cb, !.control.prefix = cp, !.control.disable = d] :
     chat \in BOOLEAN, m \in Chats, b \in Lists, cb \in Lists, p \in {<< >>, <<0>>, <<8>>},
     cp \in {<< >>, <<1, 5>>}, d \in {"absent", "false"}}

SomePayloads == WithFlags \cup WithNumbers \cup WithMarks
=============================================================================
