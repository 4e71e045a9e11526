-------------------------------- MODULE Keys --------------------------------
(***************************************************************************)
(* An account on its way from a recovery phrase to a node: derived from    *)
(* the phrase (wallet), written down as a seed or an address with a        *)
(* version byte and a checksum (strkey, crc16), read again on another      *)
(* device (keypair), where it signs, verifies and opens what was encrypted *)
(* for it (crypto).                                                        *)
(*                                                                         *)
(* Bytes and checksums are those of the code; hashes, curves and signatures *)
(* stand for functions without collisions.                                 *)
(***************************************************************************)
EXTENDS Integers, Sequences, FiniteSets

LOCAL INSTANCE SequencesExt
LOCAL INSTANCE Bitwise

BitsXor(x, y) == x ^^ y

CONSTANTS
    Bits,       \* width of an index, 32 in the code
    KeySize,    \* bytes of a seed and of a public key, 32 in the code
    Trips       \* what happens in a behaviour: see Trip

\* What befalls the text while it is copied: bytes at and at+1 change by what
\* is xor-ed to them, they are swapped, a letter that base58 does not have, the
\* end is missing.
Damage == [kind : {"none", "burst", "swap", "letter", "short"}, at : Nat, by : Seq(Nat)]

\* words: of the phrase that is asked for; index: of the account; form: what is
\* written down; size: of its payload, KeySize unless another program wrote it;
\* use: what is then done with the account.
Trip == [words : Nat, index : Int, form : {"seed", "address"}, size : Nat,
         damage : Damage, use : {"init", "sign", "verify", "send", "open"}]

ASSUME KeysAssumption ==
    /\ Bits \in Nat \ {0} /\ KeySize \in Nat \ {0} /\ Trips \subseteq Trip

VARIABLES
    trip,       \* chosen once
    place,      \* "nothing", "phrase", "account", "text", "copy", "pair" or "used"
    phrase,     \* the words of the phrase
    key,        \* the key that was derived for the account
    text,       \* what is written
    pair,       \* what was read
    upshot      \* what came of it, or the error on the way

keyVars == <<trip, place, phrase, key, text, pair, upshot>>

NoKey == <<>>
NoText == [clean |-> TRUE, raw |-> <<>>]
NoPair == [kind |-> "none", payload |-> <<>>]

KeysInit ==
    /\ trip \in Trips /\ place = "nothing" /\ phrase = 0 /\ key = NoKey
    /\ text = NoText /\ pair = NoPair /\ upshot = "nothing"

-----------------------------------------------------------------------------
(* The wallet.                                                               *)

NewWordCount == {12, 15, 18, 21, 24}

EntropySize(w) ==
    CASE w = 12 -> 128 [] w = 15 -> 160 [] w = 18 -> 192 [] w = 21 -> 224 [] OTHER -> 256

\* NewMnemonic of bip39: a checksum of one bit for 32, and 11 bits to a word.
NewMnemonic(entropy) == (entropy + entropy \div 32) \div 11

FirstHardenedIndex == 2 ^ (Bits - 1)
uint32(i) == i % 2 ^ Bits

NewMasterKey(seed) == <<seed>>

\* Only hardened keys are derived.
Derive(k, i) == IF i < FirstHardenedIndex THEN NoKey ELSE Append(k, i)

\* A path is the sequence of its segments, all of them hardened.
IsValidPath(path) == path # <<>> /\ \A n \in DOMAIN path : path[n] \in 0 .. 2 ^ Bits - 1

DeriveForPath(path, seed) ==
    IF ~IsValidPath(path) THEN NoKey
    ELSE FoldLeft(LAMBDA k, n : IF k = NoKey THEN NoKey
                                ELSE Derive(k, uint32(n + FirstHardenedIndex)),
                  NewMasterKey(seed), path)

TextileAccountPrefix == <<44, 406>>

AccountAt(seed, index) ==
    Derive(DeriveForPath(TextileAccountPrefix, seed),
           uint32(FirstHardenedIndex + uint32(index)))

\* RawSeed: the bytes of a key, different for different keys of an instance.
RawSeed(k) == [n \in 1..KeySize |->
    FoldLeft(LAMBDA h, i : (7 * h + 3 * i + n) % 256, 0, k)]

\* The public key of a seed.
PublicKey(seed) == [n \in 1..KeySize |-> (seed[n] + 101) % 256]

-----------------------------------------------------------------------------
(* The checksum.                                                             *)

crc16tab ==
    << \h0000, \h1021, \h2042, \h3063, \h4084, \h50a5, \h60c6, \h70e7, \h8108, \h9129,
       \ha14a, \hb16b, \hc18c, \hd1ad, \he1ce, \hf1ef, \h1231, \h0210, \h3273, \h2252,
       \h52b5, \h4294, \h72f7, \h62d6, \h9339, \h8318, \hb37b, \ha35a, \hd3bd, \hc39c,
       \hf3ff, \he3de, \h2462, \h3443, \h0420, \h1401, \h64e6, \h74c7, \h44a4, \h5485,
       \ha56a, \hb54b, \h8528, \h9509, \he5ee, \hf5cf, \hc5ac, \hd58d, \h3653, \h2672,
       \h1611, \h0630, \h76d7, \h66f6, \h5695, \h46b4, \hb75b, \ha77a, \h9719, \h8738,
       \hf7df, \he7fe, \hd79d, \hc7bc, \h48c4, \h58e5, \h6886, \h78a7, \h0840, \h1861,
       \h2802, \h3823, \hc9cc, \hd9ed, \he98e, \hf9af, \h8948, \h9969, \ha90a, \hb92b,
       \h5af5, \h4ad4, \h7ab7, \h6a96, \h1a71, \h0a50, \h3a33, \h2a12, \hdbfd, \hcbdc,
       \hfbbf, \heb9e, \h9b79, \h8b58, \hbb3b, \hab1a, \h6ca6, \h7c87, \h4ce4, \h5cc5,
       \h2c22, \h3c03, \h0c60, \h1c41, \hedae, \hfd8f, \hcdec, \hddcd, \had2a, \hbd0b,
       \h8d68, \h9d49, \h7e97, \h6eb6, \h5ed5, \h4ef4, \h3e13, \h2e32, \h1e51, \h0e70,
       \hff9f, \hefbe, \hdfdd, \hcffc, \hbf1b, \haf3a, \h9f59, \h8f78, \h9188, \h81a9,
       \hb1ca, \ha1eb, \hd10c, \hc12d, \hf14e, \he16f, \h1080, \h00a1, \h30c2, \h20e3,
       \h5004, \h4025, \h7046, \h6067, \h83b9, \h9398, \ha3fb, \hb3da, \hc33d, \hd31c,
       \he37f, \hf35e, \h02b1, \h1290, \h22f3, \h32d2, \h4235, \h5214, \h6277, \h7256,
       \hb5ea, \ha5cb, \h95a8, \h8589, \hf56e, \he54f, \hd52c, \hc50d, \h34e2, \h24c3,
       \h14a0, \h0481, \h7466, \h6447, \h5424, \h4405, \ha7db, \hb7fa, \h8799, \h97b8,
       \he75f, \hf77e, \hc71d, \hd73c, \h26d3, \h36f2, \h0691, \h16b0, \h6657, \h7676,
       \h4615, \h5634, \hd94c, \hc96d, \hf90e, \he92f, \h99c8, \h89e9, \hb98a, \ha9ab,
       \h5844, \h4865, \h7806, \h6827, \h18c0, \h08e1, \h3882, \h28a3, \hcb7d, \hdb5c,
       \heb3f, \hfb1e, \h8bf9, \h9bd8, \habbb, \hbb9a, \h4a75, \h5a54, \h6a37, \h7a16,
       \h0af1, \h1ad0, \h2ab3, \h3a92, \hfd2e, \hed0f, \hdd6c, \hcd4d, \hbdaa, \had8b,
       \h9de8, \h8dc9, \h7c26, \h6c07, \h5c64, \h4c45, \h3ca2, \h2c83, \h1ce0, \h0cc1,
       \hef1f, \hff3e, \hcf5d, \hdf7c, \haf9b, \hbfba, \h8fd9, \h9ff8, \h6e17, \h7e36,
       \h4e55, \h5e74, \h2e93, \h3eb2, \h0ed1, \h1ef0 >>

\* The table has the effect of a byte on the checksum; the low byte first.
Checksum(data) ==
    LET Add(c, b) == BitsXor((c * 256) % 65536,
                             crc16tab[1 + (BitsXor(c \div 256, b) % 256)])
        crc == FoldLeft(Add, 0, data)
    IN  <<crc % 256, crc \div 256>>

\* The remainder of the division by x^16 + x^12 + x^5 + 1, bit after bit.
Remainder(data) ==
    LET bits == [n \in 1 .. 8 * Len(data) |->
                    (data[1 + (n - 1) \div 8] \div 2 ^ (7 - ((n - 1) % 8))) % 2]
        Shift(r, b) == LET s == (2 * r) % 65536
                       IN  IF r \div 32768 # b THEN BitsXor(s, 4129) ELSE s
    IN  FoldLeft(Shift, 0, bits)

-----------------------------------------------------------------------------
(* The text.  In base58 a text without a foreign letter is one sequence of   *)
(* bytes and the other way round.                                            *)

VersionByte == [address |-> 221, seed |-> 255]

Encode(form, payload) ==
    LET vp == <<VersionByte[form]>> \o payload
    IN  [clean |-> TRUE, raw |-> vp \o Checksum(vp)]

Unread(why) == [err |-> why, payload |-> <<>>]

\* Mutant: the version byte may be that of the other form.
DecodeAny(form, t) ==
    LET n == Len(t.raw) IN
    IF ~t.clean \/ n < 3 THEN Unread("no text")
    ELSE IF \A f \in DOMAIN VersionByte : t.raw[1] # VersionByte[f]
    THEN Unread("version")
    ELSE IF Checksum(SubSeq(t.raw, 1, n - 2)) # SubSeq(t.raw, n - 1, n)
    THEN Unread("checksum")
    ELSE [err |-> "none", payload |-> SubSeq(t.raw, 2, n - 2)]

Decode(form, t) ==
    LET n == Len(t.raw) IN
    IF ~t.clean \/ n < 3 THEN Unread("no text")
    ELSE IF t.raw[1] # VersionByte[form] THEN Unread("version")
    ELSE IF Checksum(SubSeq(t.raw, 1, n - 2)) # SubSeq(t.raw, n - 1, n)
    THEN Unread("checksum")
    ELSE [err |-> "none", payload |-> SubSeq(t.raw, 2, n - 2)]

-----------------------------------------------------------------------------
(* The pair.                                                                 *)

\* As an address, and if it is none as a seed; the size is not looked at.
Parse(t) ==
    LET a == Decode("address", t)
        s == Decode("seed", t)
    IN  IF a.err = "none" THEN [kind |-> "address", payload |-> a.payload]
        ELSE IF a.err = "version" /\ s.err = "none"
        THEN [kind |-> "full", payload |-> s.payload]
        ELSE NoPair

\* The key of a short seed cannot be made; an address is cut or filled up.
KeyFails(p) == p.kind = "full" /\ Len(p.payload) < KeySize
KeyOf(p) ==
    IF p.kind = "full" THEN PublicKey(p.payload)
    ELSE [n \in 1..KeySize |-> IF n <= Len(p.payload) THEN p.payload[n] ELSE 0]

Full(seed) == [kind |-> "full", payload |-> seed]
Sign(p, input) == [by |-> KeyOf(p), of |-> input]
Verifies(p, input, signature) == signature = [by |-> KeyOf(p), of |-> input]
Encrypt(p, input) == [for |-> KeyOf(p), of |-> input]
Decrypts(p, box) == box.for = KeyOf(p)

-----------------------------------------------------------------------------
Ends(why) == place' = "used" /\ upshot' = why

\* WalletFromWordCount.
MakePhrase ==
    /\ place = "nothing"
    /\ IF trip.words \in NewWordCount
       THEN /\ phrase' = NewMnemonic(EntropySize(trip.words)) /\ place' = "phrase"
            /\ upshot' = upshot
       ELSE Ends("word count") /\ phrase' = phrase
    /\ UNCHANGED <<trip, key, text, pair>>

\* WalletAccountAt; the phrase is the seed of the wallet.
MakeAccount ==
    /\ place = "phrase" /\ key' = AccountAt(phrase, trip.index)
    /\ IF key' = NoKey THEN Ends("index") ELSE place' = "account" /\ upshot' = upshot
    /\ UNCHANGED <<trip, phrase, text, pair>>

\* Seed and Address of the account, or a payload of another size.
Owner == Full(RawSeed(key))
Written(form) == IF form = "seed" THEN RawSeed(key) ELSE KeyOf(Owner)
WriteDown ==
    /\ place = "account" /\ place' = "text"
    /\ text' = Encode(trip.form, [n \in 1 .. trip.size |->
                                     IF n <= KeySize THEN Written(trip.form)[n] ELSE 9])
    /\ UNCHANGED <<trip, phrase, key, pair, upshot>>

Copied(t, d) ==
    LET r == t.raw IN
    CASE d.kind = "none" -> t
      [] d.kind = "burst" -> [t EXCEPT !.raw =
                                 [r EXCEPT ![d.at] = BitsXor(@, d.by[1]),
                                           ![d.at + 1] = BitsXor(@, d.by[2])]]
      [] d.kind = "swap" -> [t EXCEPT !.raw = [r EXCEPT ![d.at] = r[d.at + 1],
                                                        ![d.at + 1] = r[d.at]]]
      [] d.kind = "letter" -> [t EXCEPT !.clean = FALSE]
      [] d.kind = "short" -> [t EXCEPT !.raw = SubSeq(r, 1, 2)]

CopyText ==
    /\ place = "text" /\ place' = "copy" /\ text' = Copied(text, trip.damage)
    /\ UNCHANGED <<trip, phrase, key, pair, upshot>>

ParseCopy ==
    /\ place = "copy" /\ pair' = Parse(text)
    /\ IF pair' = NoPair THEN Ends("not a key") ELSE place' = "pair" /\ upshot' = upshot
    /\ UNCHANGED <<trip, phrase, key, text>>

UseAs(use) ==
    /\ place = "pair" /\ trip.use = use
    /\ UNCHANGED <<trip, phrase, key, text, pair>>
Outcome(good, yes, no) == Ends(IF good THEN yes ELSE no)

\* A node is set up with a seed, and takes its identity from it.
InitWith ==
    /\ UseAs("init")
    /\ IF pair.kind # "full" THEN Ends("invalid key")
       ELSE IF KeyFails(pair) THEN Ends("panic")
       ELSE Outcome(KeyOf(pair) = KeyOf(Owner), "right account", "wrong account")

\* What the copy signs is verified by others with the account's key.
SignWith ==
    /\ UseAs("sign")
    /\ IF pair.kind = "address" THEN Ends("cannot sign")
       ELSE IF KeyFails(pair) THEN Ends("panic")
       ELSE Outcome(Verifies(Owner, "m", Sign(pair, "m")), "verified", "not verified")

\* What the account signed is verified with the copy.
VerifyWith ==
    /\ UseAs("verify")
    /\ IF KeyFails(pair) THEN Ends("panic")
       ELSE Outcome(Verifies(pair, "m", Sign(Owner, "m")), "verified", "not verified")

\* What is encrypted for the copy is opened by the account.
SendWith ==
    /\ UseAs("send")
    /\ IF KeyFails(pair) THEN Ends("panic")
       ELSE Outcome(Decrypts(Owner, Encrypt(pair, "m")), "opened", "not opened")

\* What is encrypted for the account is opened with the copy.
OpenWith ==
    /\ UseAs("open")
    /\ IF pair.kind = "address" THEN Ends("cannot decrypt")
       ELSE IF KeyFails(pair) THEN Ends("panic")
       ELSE Outcome(Decrypts(pair, Encrypt(Owner, "m")), "opened", "not opened")

KeysNext ==
    \/ MakePhrase \/ MakeAccount \/ WriteDown \/ CopyText \/ ParseCopy
    \/ InitWith \/ SignWith \/ VerifyWith \/ SendWith \/ OpenWith

KeysTypeOK ==
    /\ trip \in Trips /\ phrase \in Nat /\ key \in Seq(Int)
    /\ place \in {"nothing", "phrase", "account", "text", "copy", "pair", "used"}
    /\ text.clean \in BOOLEAN /\ text.raw \in Seq(0..255)
    /\ pair.kind \in {"none", "full", "address"} /\ pair.payload \in Seq(0..255)

-----------------------------------------------------------------------------
\* A phrase has the words that were asked for.  Every index of 31 bits has an
\* account, the one at its path, and of the others those that 32 bits can hold
\* have none.
AccountsMatch ==
    /\ phrase \in {0, trip.words}
    /\ (place \notin {"nothing", "phrase"} /\ upshot # "word count") =>
        LET i == trip.index
            same == DeriveForPath(Append(TextileAccountPrefix, i), phrase)
        IN  /\ i \in 0 .. FirstHardenedIndex - 1 => (key = same /\ key # NoKey)
            /\ i \in -FirstHardenedIndex .. -1 => key = NoKey
            /\ i \in FirstHardenedIndex .. 2 ^ Bits - 1 => (key = NoKey /\ same = NoKey)

\* The table divides as the polynomial does.
TableDivides ==
    place = "text" =>
        LET n == Len(text.raw)
            r == Remainder(SubSeq(text.raw, 1, n - 2))
        IN  text.raw[n - 1] = r % 256 /\ text.raw[n] = r \div 256

\* What is read is the account whose text it was, and a damaged text is not
\* read, when no more than 16 bits in a row of the bytes are hurt.
CopyTrusted ==
    pair # NoPair =>
        /\ text = Encode(trip.form, pair.payload)
        /\ pair.kind = (IF trip.form = "seed" THEN "full" ELSE "address")
        /\ trip.size = KeySize => pair.payload = Written(trip.form)

\* A copy of the right size does what its kind can do, for the right account.
CopyServes ==
    place = "used" /\ pair # NoPair /\ trip.size = KeySize =>
        IF trip.form = "seed" THEN upshot \in {"right account", "verified", "opened"}
        ELSE \/ trip.use \in {"verify", "send"} /\ upshot \in {"verified", "opened"}
             \/ trip.use \notin {"verify", "send"}
                /\ upshot \in {"invalid key", "cannot sign", "cannot decrypt"}

\* wallet, strkey, crc16 and keypair: the account that is read elsewhere is the
\* one that was derived, or nothing is read.
KeysSound == AccountsMatch /\ TableDivides /\ CopyTrusted /\ CopyServes
=============================================================================
