----------------------------- MODULE MCPowGiver -----------------------------
(* A small giver: three seeds, two rdata values, two parameter cells.      *)
EXTENDS PowGiver

MCRdata == 0 .. 1

MCParams == {[target_delta |-> 1, min |-> 4, max |-> 32],
             [target_delta |-> 3, min |-> 8, max |-> 16]}

\* A message for every sequence number, a replay of the first with another
\* content, one for another giver and one that expires.
MCOwnerMsgs ==
  LET p == [target_delta |-> 3, min |-> 8, max |-> 16]
  IN {[subwallet_id |-> 7, valid_until |-> 9, seqno |-> 0, actions |-> <<>>],
      [subwallet_id |-> 0, valid_until |-> 9, seqno |-> 0,
       actions |-> <<[mode |-> 255, reset |-> 16, xdata |-> p],
                     [mode |-> 255, reset |-> 0, xdata |-> p]>>],
      [subwallet_id |-> 7, valid_until |-> 9, seqno |-> 1,
       actions |-> <<[mode |-> 3, reset |-> 0, xdata |-> p],
                     [mode |-> 255, reset |-> 0, xdata |-> p]>>],
      [subwallet_id |-> 8, valid_until |-> 9, seqno |-> 1, actions |-> <<>>],
      [subwallet_id |-> 7, valid_until |-> 2, seqno |-> 1, actions |-> <<>>]}

\* An arbitrary spread of hashes over 0 .. 39.
MCHash(m) == (7 * m.expire + 11 * m.rdata1 + 13 * m.rseed + 17 * m.rdata2) % 40
=============================================================================
