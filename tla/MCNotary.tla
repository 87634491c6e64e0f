------------------------------ MODULE MCNotary -------------------------------
(* An instance of Notary for TLC, with real instants and spelled-out seeds. *)
EXTENDS Notary, Integers, TLC

CONSTANTS p1, p2, h1, h2, l1, l2   \* passports, hashes, logs

Time == INSTANCE Timestamp WITH ParseError <- Malformed

MCTimeText(t) == Time!Display(t)
MCTimeOf(text) == IF Present(text) THEN Time!Parse(text) ELSE Malformed

Noon == [hour |-> 12, min |-> 0, sec |-> 0]
Text(year, month, zone) ==
    [date |-> [year |-> year, month |-> month, day |-> 31], time |-> Noon, zone |-> zone]

MCInstants == { MCTimeOf(Text(2025, 12, 0)) }

MCSubmissions ==
    { [passport_id |-> p1, state_hash |-> h1, log_head |-> h2, submitter |-> p1, state_size |-> Null] }

\* Receipts: one that is complete, and what may become of each of its fields.
\* The last instant lies beyond the year 9999, where it can be computed with
\* but not be written down.
Whole == [log_id |-> l1, seq |-> 7, receipt_id |-> 8, tree_size |-> 9, root |-> h1,
          logged_at |-> Text(2025, 12, 3600)]
LastNoon == [Text(9999, 12, 0) EXCEPT !.zone = -50400]
MCReceipts ==
    { Whole, [Whole EXCEPT !.log_id = Empty], [Whole EXCEPT !.logged_at = LastNoon],
      [Whole EXCEPT !.seq = Malformed, !.receipt_id = Malformed] }
    \cup { [Whole EXCEPT ![f] = Missing] : f \in DOMAIN Whole }

\* Another instant, no instant, and the right one in another zone.
OtherTimes == { Text(2025, 12, 60), Text(2025, 13, 0),
           [Text(2025, 12, 3600) EXCEPT !.time.hour = 13] }
Numbers == {1, 7, 8}
Hashes == {h1, h2}
MCFieldValues ==
    [seq |-> Numbers, snapshot_id |-> {SnapshotIdOf(1)}, notarized_at |-> OtherTimes,
     passport_id |-> {p1, p2}, state_hash |-> Hashes, log_head |-> Hashes,
     submitter |-> {p1, p2}, state_size |-> Numbers,
     status |-> {"anchored", "unanchored"}, reason |-> {"other"}, log_id |-> {l1, l2, Empty},
     receipt_id |-> Numbers, tree_size |-> Numbers, root |-> Hashes, logged_at |-> OtherTimes,
     commitment |-> Hashes, receipt |-> {[Whole EXCEPT !.seq = 8]},
     signature |-> {Hex(Unsigned)}, key_id |-> {K!KeyId([dev |-> <<"z">>])},
     body_digest |-> Hashes, as_of |-> OtherTimes, submitted_at |-> OtherTimes,
     statement_digest |-> Hashes, service |-> {p1}]

-----------------------------------------------------------------------------
(* Seeds.                                                                  *)

\* The codec against its reference, on every text of up to four characters:
\* what spells some bytes decodes to them, and nothing else decodes.
ShortTexts == UNION { [1 .. n -> {"0", "a", "A", "x", K!Blank}] : n \in 0 .. 4 }
ByteSeqs == UNION { [1 .. n -> { 16 * hi + lo : hi, lo \in {0, 10} }] : n \in 0 .. 2 }
ASSUME CodecOnShortTexts ==
    \A t \in ShortTexts :
        /\ K!HexDecode(t) \in ByteSeqs \cup {Rejected}
        /\ \A b \in ByteSeqs : K!HexDecode(t) = b <=> K!Spells(t, b)

DevText == <<"d", K!Blank>>

\* The operator's seed spelled in two ways, a seed that is too short, and
\* none; with and without a log and a development seed.
MCSettings ==
    { [sign_seed |-> <<K!Blank, "0", "x", "0", "A", "b", "0">>, dev_seed |-> Null, log_url |-> <<"u">>],
      [sign_seed |-> <<"0", "a", "B", "0">>, dev_seed |-> DevText, log_url |-> <<K!Blank>>],
      [sign_seed |-> <<"0", "a">>, dev_seed |-> <<K!Blank>>, log_url |-> <<"u">>],
      [sign_seed |-> Null, dev_seed |-> DevText, log_url |-> Null] }

MCDefaultDevSeed == <<"d", "e", "v">>
==============================================================================
