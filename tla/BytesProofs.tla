----------------------------- MODULE BytesProofs -----------------------------
(***************************************************************************)
(* Facts about Frames, for frames, fields and bytes of any width: what is  *)
(* read from a frame is what was written into it, and what is not, where   *)
(* a field overruns its neighbour.  Facts about FileChunkIO, for files and *)
(* chunks of any size: the chunks of a file tile it, and a chunk that is   *)
(* written is stored where it is read, without harm to the others and to   *)
(* the length of the file.                                                 *)
(***************************************************************************)
EXTENDS Frames, FileChunkIO, OrdersProofs

LEMMA Sizes ==
    /\ Bits \in Nat \ {0} /\ IpWidth \in Nat \ {0} /\ PortWidth \in Nat \ {0}
    /\ NameWidth \in Nat \ {0} /\ FrameLength \in Nat \ {0}
    /\ ChunkSize \in Nat \ {0} /\ MaxChunks \in Nat \ {0}
    /\ Base \in Nat /\ Base > 15
    /\ AddressEnd = 1 + IpWidth + PortWidth /\ ChunkAt = 6 /\ IntWidth = 4
    /\ ChunkAt + ChunkSize <= FrameLength
    /\ AddressEnd + 9 + NameWidth <= FrameLength
<1>1. {Bits, IpWidth, PortWidth, NameWidth, FrameLength} \subseteq Nat \ {0}
  BY FramesAssumption
<1> QED
  BY <1>1, FramesAssumption, GlobalsAssumption DEF AddressEnd, ChunkAt, IntWidth

\* A frame as it is on the way.
FrameShape == [0..(FrameLength - 1) -> Byte]

-----------------------------------------------------------------------------
(***************************************************************************)
(* Bytes that are put into a frame.                                        *)
(***************************************************************************)
LEMMA PutFacts ==
    ASSUME NEW frame, NEW at \in Nat, NEW bytes, Len(bytes) \in Nat
    PROVE  /\ DOMAIN Put(frame, at, bytes) = DOMAIN frame
           /\ \A k \in 1..Len(bytes) : at + k - 1 \in DOMAIN frame
                                         => Put(frame, at, bytes)[at + k - 1] = bytes[k]
           /\ \A i \in DOMAIN frame : i \notin at..(at + Len(bytes) - 1)
                                         => Put(frame, at, bytes)[i] = frame[i]
<1>1. DOMAIN Put(frame, at, bytes) = DOMAIN frame
  BY DEF Put
<1>2. ASSUME NEW k \in 1..Len(bytes), at + k - 1 \in DOMAIN frame
      PROVE  Put(frame, at, bytes)[at + k - 1] = bytes[k]
  <2>1. at + k - 1 \in at..(at + Len(bytes) - 1) /\ (at + k - 1) - at + 1 = k
    OBVIOUS
  <2> QED
    BY <1>2, <2>1 DEF Put
<1>3. ASSUME NEW i \in DOMAIN frame, i \notin at..(at + Len(bytes) - 1)
      PROVE  Put(frame, at, bytes)[i] = frame[i]
  BY <1>3 DEF Put
<1> QED
  BY <1>1, <1>2, <1>3

LEMMA PutFirst ==
    ASSUME NEW frame, NEW bytes, Len(bytes) \in Nat
    PROVE  /\ DOMAIN Put(frame, 1, bytes) = DOMAIN frame
           /\ \A k \in 1..Len(bytes) : k \in DOMAIN frame => Put(frame, 1, bytes)[k] = bytes[k]
           /\ \A i \in DOMAIN frame : i \notin 1..Len(bytes) => Put(frame, 1, bytes)[i] = frame[i]
<1>1. ASSUME NEW k \in 1..Len(bytes), k \in DOMAIN frame
      PROVE  Put(frame, 1, bytes)[k] = bytes[k]
  <2>1. k \in 1..(1 + Len(bytes) - 1) /\ k - 1 + 1 = k
    OBVIOUS
  <2> QED
    BY <1>1, <2>1 DEF Put
<1>2. ASSUME NEW i \in DOMAIN frame, i \notin 1..Len(bytes)
      PROVE  Put(frame, 1, bytes)[i] = frame[i]
  BY <1>2 DEF Put
<1> QED
  BY <1>1, <1>2 DEF Put

-----------------------------------------------------------------------------
(***************************************************************************)
(* Integers.                                                               *)
(***************************************************************************)
LEMMA Quotient ==
    ASSUME NEW n \in Nat
    PROVE  /\ Shifted(n) \in Nat /\ n % Base \in Byte
           /\ n = Shifted(n) * Base + (n % Base)
<1>1. Base \in Nat \ {0}
  BY Sizes
<1>2. n \div Base \in Nat /\ n % Base \in 0..(Base - 1) /\ n = Base * (n \div Base) + (n % Base)
  BY <1>1, SMT
<1>3. (n \div Base) * Base = Base * (n \div Base)
  BY <1>1, <1>2, SMT
<1> QED
  BY <1>1, <1>2, <1>3 DEF Shifted, Byte

LEMMA Smaller ==
    ASSUME NEW n \in Nat, NEW q \in Nat, n < q * Base PROVE Shifted(n) < q
BY Sizes, SMT DEF Shifted

\* parseIntFromCharArray() reads back what copyIntToCharArray() has written.
LEMMA IntRead ==
    ASSUME NEW n \in Nat, n < IntLimit, NEW frame, NEW at,
           frame[at] = IntBytes(n)[1], frame[at + 1] = IntBytes(n)[2],
           frame[at + 2] = IntBytes(n)[3], frame[at + 3] = IntBytes(n)[4]
    PROVE  ParseInt(frame, at) = n
<1> DEFINE n1 == Shifted(n)
           n2 == Shifted(n1)
           n3 == Shifted(n2)
           h == Base \div 2
<1>1. Base \in Nat \ {0} /\ h \in Nat /\ h * Base \in Nat /\ (h * Base) * Base \in Nat /\ h < Base
  BY Sizes, SMT
<1>2. n1 \in Nat /\ n2 \in Nat /\ n3 \in Nat
  BY Quotient
<1>3. n1 < (h * Base) * Base
  BY <1>1, Smaller DEF IntLimit
<1>4. n2 < h * Base
  BY <1>1, <1>2, <1>3, Smaller
<1>5. n3 < h
  BY <1>1, <1>2, <1>4, Smaller
<1>6. n = n1 * Base + (n % Base) /\ n1 = n2 * Base + (n1 % Base) /\ n2 = n3 * Base + (n2 % Base)
  BY <1>2, Quotient
<1>7. n3 % Base = n3
  <2> HIDE DEF n1, n2, n3, h
  <2> QED
    BY <1>1, <1>2, <1>5, SMT
<1>8. /\ frame[at] = n3 /\ frame[at + 1] = n2 % Base /\ frame[at + 2] = n1 % Base
      /\ frame[at + 3] = n % Base
  BY <1>7 DEF IntBytes
<1>9. ((frame[at] * Base + frame[at + 1]) * Base + frame[at + 2]) * Base + frame[at + 3] = n
  <2> HIDE DEF n1, n2, n3, h
  <2> QED
    BY <1>6, <1>8
<1>10. frame[at] < Base \div 2
  <2> HIDE DEF n1, n2, n3
  <2> QED
    BY <1>5, <1>8
<1> QED
  BY <1>9, <1>10 DEF ParseInt

-----------------------------------------------------------------------------
(***************************************************************************)
(* Strings.                                                                *)
(***************************************************************************)
Letters == Byte \ {0}

\* c_str() stops at the NUL, or at the end of the field.
LEMMA TextRead ==
    ASSUME NEW width \in Nat, NEW s \in Seq(Letters), Len(s) <= width,
           NEW frame, NEW at \in Nat,
           \A k \in 1..Len(s) : frame[at + k - 1] = s[k],
           Len(s) < width => frame[at + Len(s)] = 0
    PROVE  Text(frame, at, width) = s
<1> DEFINE Ends(k) == /\ k = width \/ frame[at + k] = 0
                      /\ \A j \in 0..(k - 1) : frame[at + j] # 0
<1>1. Len(s) \in 0..width /\ DOMAIN s = 1..Len(s) /\ s = [k \in 1..Len(s) |-> s[k]]
  BY LenProperties
<1>2. ASSUME NEW j \in 0..(Len(s) - 1) PROVE frame[at + j] # 0
  <2>1. j + 1 \in 1..Len(s) /\ at + (j + 1) - 1 = at + j
    BY <1>1
  <2>2. frame[at + j] = s[j + 1] /\ s[j + 1] \in Letters
    BY <1>1, <2>1, ElementOfSeq
  <2> QED
    BY <2>2 DEF Letters
<1>3. Ends(Len(s))
  BY <1>1, <1>2
<1>4. ASSUME NEW k \in 0..width, Ends(k) PROVE k = Len(s)
  <2>1. CASE k < Len(s)
    <3>1. k \in 0..(Len(s) - 1) /\ k # width
      BY <1>1, <2>1
    <3> QED
      BY <1>2, <1>4, <3>1
  <2>2. CASE k > Len(s)
    <3>1. Len(s) \in 0..(k - 1) /\ Len(s) < width
      BY <1>1, <2>2
    <3> QED
      BY <1>4, <3>1
  <2> QED
    BY <1>1, <2>1, <2>2
<1>5. (CHOOSE k \in 0..width : Ends(k)) = Len(s)
  <2> HIDE DEF Ends
  <2> QED
    BY <1>1, <1>3, <1>4
<1>6. Text(frame, at, width) = [i \in 1..Len(s) |-> frame[at + i - 1]]
  BY <1>5 DEF Text
<1> QED
  BY <1>1, <1>6

\* What strcpy() writes.
LEMMA StrCpyFacts ==
    ASSUME NEW frame, NEW at \in Nat, NEW s \in Seq(Letters),
           at..(at + Len(s)) \subseteq DOMAIN frame
    PROVE  /\ DOMAIN StrCpy(frame, at, s) = DOMAIN frame
           /\ \A k \in 1..Len(s) : StrCpy(frame, at, s)[at + k - 1] = s[k]
           /\ StrCpy(frame, at, s)[at + Len(s)] = 0
           /\ \A i \in DOMAIN frame : i \notin at..(at + Len(s)) => StrCpy(frame, at, s)[i] = frame[i]
<1> DEFINE bytes == Append(s, 0)
<1>1. s \in Seq(Nat) /\ Len(s) \in Nat
  <2>1. Letters \subseteq Nat
    BY Sizes DEF Letters, Byte
  <2> QED
    BY <2>1, SeqMonotonic, LenProperties
<1>2. /\ bytes \in Seq(Nat) /\ Len(bytes) = Len(s) + 1 /\ bytes[Len(s) + 1] = 0
      /\ \A k \in 1..Len(s) : bytes[k] = s[k]
  BY <1>1, AppendProperties
<1> HIDE DEF bytes
<1>3. /\ DOMAIN Put(frame, at, bytes) = DOMAIN frame
      /\ \A k \in 1..Len(bytes) : at + k - 1 \in DOMAIN frame
                                    => Put(frame, at, bytes)[at + k - 1] = bytes[k]
      /\ \A i \in DOMAIN frame : i \notin at..(at + Len(bytes) - 1)
                                    => Put(frame, at, bytes)[i] = frame[i]
  <2>1. Len(bytes) \in Nat
    BY <1>1, <1>2
  <2> QED
    BY <2>1, PutFacts
<1>4. StrCpy(frame, at, s) = Put(frame, at, bytes)
  BY DEF StrCpy, bytes
<1>5. ASSUME NEW k \in 1..Len(s) PROVE StrCpy(frame, at, s)[at + k - 1] = s[k]
  <2>1. k \in 1..Len(bytes) /\ at + k - 1 \in at..(at + Len(s))
    BY <1>1, <1>2
  <2> QED
    BY <1>2, <1>3, <1>4, <2>1
<1>6. StrCpy(frame, at, s)[at + Len(s)] = 0
  <2>1. Len(s) + 1 \in 1..Len(bytes) /\ at + (Len(s) + 1) - 1 = at + Len(s) /\ at + Len(s) \in at..(at + Len(s))
    BY <1>1, <1>2
  <2> QED
    BY <1>2, <1>3, <1>4, <2>1
<1>7. at + Len(bytes) - 1 = at + Len(s)
  BY <1>1, <1>2
<1> QED
  BY <1>3, <1>4, <1>5, <1>6, <1>7

\* The address in a frame, in fields that begin at byte 1.
LEMMA AddressRead ==
    ASSUME NEW frame, 0..(FrameLength - 1) \subseteq DOMAIN frame,
           NEW ip \in Seq(Letters), Len(ip) <= IpWidth,
           NEW port \in Seq(Letters), Len(port) <= PortWidth
    PROVE  /\ DOMAIN SetAddress(frame, ip, port) = DOMAIN frame
           /\ \A fr : (/\ \A i \in 1..(IpWidth + PortWidth) : fr[i] = SetAddress(frame, ip, port)[i])
                        => GetIp(fr) = ip /\ GetPort(fr) = port
           /\ \A i \in DOMAIN frame :
                i \notin 1..(IpWidth + PortWidth + 1) \/ (i = AddressEnd /\ Len(port) < PortWidth)
                  => SetAddress(frame, ip, port)[i] = frame[i]
           /\ Len(port) = PortWidth => SetAddress(frame, ip, port)[AddressEnd] = 0
<1> DEFINE first == StrCpy(frame, 1, ip)
           at == 1 + IpWidth
           both == StrCpy(first, at, port)
<1>1. /\ IpWidth \in Nat \ {0} /\ PortWidth \in Nat \ {0} /\ FrameLength \in Nat /\ NameWidth \in Nat
      /\ AddressEnd = 1 + IpWidth + PortWidth /\ AddressEnd + 9 + NameWidth <= FrameLength
      /\ Len(ip) \in Nat /\ Len(port) \in Nat /\ at \in Nat
  BY Sizes, LenProperties
<1>2. 1..(1 + Len(ip)) \subseteq DOMAIN frame /\ at..(at + Len(port)) \subseteq DOMAIN frame
  BY <1>1
<1>3. /\ DOMAIN first = DOMAIN frame
      /\ \A k \in 1..Len(ip) : first[1 + k - 1] = ip[k]
      /\ first[1 + Len(ip)] = 0
      /\ \A i \in DOMAIN frame : i \notin 1..(1 + Len(ip)) => first[i] = frame[i]
  BY <1>2, StrCpyFacts
<1> HIDE DEF first
<1>4. /\ DOMAIN both = DOMAIN frame
      /\ \A k \in 1..Len(port) : both[at + k - 1] = port[k]
      /\ both[at + Len(port)] = 0
      /\ \A i \in DOMAIN frame : i \notin at..(at + Len(port)) => both[i] = first[i]
  BY <1>1, <1>2, <1>3, StrCpyFacts
<1>5. SetAddress(frame, ip, port) = both
  BY DEF SetAddress, first
<1> HIDE DEF both
<1>6. ASSUME NEW fr, \A i \in 1..(IpWidth + PortWidth) : fr[i] = both[i]
      PROVE  GetIp(fr) = ip /\ GetPort(fr) = port
  <2>1. ASSUME NEW k \in 1..Len(ip) PROVE fr[1 + k - 1] = ip[k]
    <3>1. 1 + k - 1 \in 1..(IpWidth + PortWidth) /\ 1 + k - 1 \notin at..(at + Len(port)) /\ 1 + k - 1 \in DOMAIN frame
      BY <1>1, <1>2
    <3> QED
      BY <1>3, <1>4, <1>6, <3>1
  <2>2. ASSUME Len(ip) < IpWidth PROVE fr[1 + Len(ip)] = 0
    <3>1. 1 + Len(ip) \in 1..(IpWidth + PortWidth) /\ 1 + Len(ip) \notin at..(at + Len(port)) /\ 1 + Len(ip) \in DOMAIN frame
      BY <1>1, <1>2, <2>2
    <3> QED
      BY <1>3, <1>4, <1>6, <3>1
  <2>3. ASSUME NEW k \in 1..Len(port) PROVE fr[at + k - 1] = port[k]
    <3>1. at + k - 1 \in 1..(IpWidth + PortWidth)
      BY <1>1
    <3> QED
      BY <1>4, <1>6, <3>1
  <2>4. ASSUME Len(port) < PortWidth PROVE fr[at + Len(port)] = 0
    <3>1. at + Len(port) \in 1..(IpWidth + PortWidth)
      BY <1>1, <2>4
    <3> QED
      BY <1>4, <1>6, <3>1
  <2>5. Text(fr, 1, IpWidth) = ip
    BY <1>1, <2>1, <2>2, TextRead
  <2>6. Text(fr, at, PortWidth) = port
    BY <1>1, <2>3, <2>4, TextRead
  <2> QED
    BY <2>5, <2>6 DEF GetIp, GetPort
<1>7. ASSUME NEW i \in DOMAIN frame,
             i \notin 1..(IpWidth + PortWidth + 1) \/ (i = AddressEnd /\ Len(port) < PortWidth)
      PROVE  both[i] = frame[i]
  <2>1. i \notin at..(at + Len(port)) /\ i \notin 1..(1 + Len(ip))
    BY <1>1, <1>7
  <2> QED
    BY <1>3, <1>4, <2>1
<1>8. Len(port) = PortWidth => both[AddressEnd] = 0
  BY <1>1, <1>4
<1> QED
  BY <1>4, <1>5, <1>6, <1>7, <1>8

-----------------------------------------------------------------------------
(***************************************************************************)
(* Fields, one after another.                                              *)
(***************************************************************************)
LEMMA IntBytesFacts ==
    ASSUME NEW n \in Nat
    PROVE  IntBytes(n) \in Seq(Byte) /\ Len(IntBytes(n)) = 4
<1>1. /\ Shifted(Shifted(Shifted(n))) % Base \in Byte /\ Shifted(Shifted(n)) % Base \in Byte
      /\ Shifted(n) % Base \in Byte /\ n % Base \in Byte
  BY Quotient
<1> QED
  BY <1>1 DEF IntBytes

LEMMA Joined ==
    ASSUME NEW s \in Seq(Byte), NEW t \in Seq(Byte)
    PROVE  /\ s \o t \in Seq(Byte) /\ Len(s \o t) = Len(s) + Len(t)
           /\ Len(s) \in Nat /\ Len(t) \in Nat
           /\ \A k \in 1..Len(s) : (s \o t)[k] = s[k]
           /\ \A k \in 1..Len(t) : (s \o t)[Len(s) + k] = t[k]
<1>1. /\ s \o t \in Seq(Byte) /\ Len(s \o t) = Len(s) + Len(t)
      /\ \A i \in 1..(Len(s) + Len(t)) : (s \o t)[i] = IF i <= Len(s) THEN s[i] ELSE t[i - Len(s)]
  BY ConcatProperties
<1>2. Len(s) \in Nat /\ Len(t) \in Nat
  BY LenProperties
<1>3. ASSUME NEW k \in 1..Len(s) PROVE (s \o t)[k] = s[k]
  BY <1>1, <1>2
<1>4. ASSUME NEW k \in 1..Len(t) PROVE (s \o t)[Len(s) + k] = t[k]
  <2>1. Len(s) + k \in 1..(Len(s) + Len(t)) /\ ~ (Len(s) + k <= Len(s)) /\ (Len(s) + k) - Len(s) = k
    BY <1>2
  <2> QED
    BY <1>1, <2>1
<1> QED
  BY <1>1, <1>2, <1>3, <1>4

\* A file number and an integer after it.
LEMMA Header ==
    ASSUME NEW num \in Byte, NEW n \in Nat
    PROVE  /\ <<num>> \o IntBytes(n) \in Seq(Byte) /\ Len(<<num>> \o IntBytes(n)) = 5
           /\ (<<num>> \o IntBytes(n))[1] = num
           /\ \A k \in 1..4 : (<<num>> \o IntBytes(n))[k + 1] = IntBytes(n)[k]
<1>1. <<num>> \in Seq(Byte) /\ Len(<<num>>) = 1 /\ <<num>>[1] = num
  OBVIOUS
<1>2. IntBytes(n) \in Seq(Byte) /\ Len(IntBytes(n)) = 4
  BY IntBytesFacts
<1>3. /\ <<num>> \o IntBytes(n) \in Seq(Byte)
      /\ Len(<<num>> \o IntBytes(n)) = Len(<<num>>) + Len(IntBytes(n))
      /\ \A k \in 1..Len(<<num>>) : (<<num>> \o IntBytes(n))[k] = <<num>>[k]
      /\ \A k \in 1..Len(IntBytes(n)) : (<<num>> \o IntBytes(n))[Len(<<num>>) + k] = IntBytes(n)[k]
  BY <1>1, <1>2, Joined
<1>4. (<<num>> \o IntBytes(n))[1] = num
  BY <1>1, <1>3
<1>5. ASSUME NEW k \in 1..4 PROVE (<<num>> \o IntBytes(n))[k + 1] = IntBytes(n)[k]
  BY <1>1, <1>2, <1>3
<1> QED
  BY <1>1, <1>2, <1>3, <1>4, <1>5

\* An integer that begins at a byte of the frame.
LEMMA IntAt ==
    ASSUME NEW n \in Nat, n < IntLimit, NEW frame, NEW at \in Nat,
           \A k \in 1..4 : frame[at + k - 1] = IntBytes(n)[k]
    PROVE  ParseInt(frame, at) = n
<1>1. at + 1 - 1 = at /\ at + 2 - 1 = at + 1 /\ at + 3 - 1 = at + 2 /\ at + 4 - 1 = at + 3
  OBVIOUS
<1>2. /\ frame[at] = IntBytes(n)[1] /\ frame[at + 1] = IntBytes(n)[2]
      /\ frame[at + 2] = IntBytes(n)[3] /\ frame[at + 3] = IntBytes(n)[4]
  BY <1>1
<1> QED
  BY <1>2, IntRead

-----------------------------------------------------------------------------
(***************************************************************************)
(* The type of a frame.                                                    *)
(***************************************************************************)
Kind == DOMAIN FrameType

LEMMA TypeRead ==
    ASSUME NEW frame, NEW type \in Kind, frame[0] = FrameType[type]
    PROVE  GetFrameType(frame) = type
<1>1. \A other \in DOMAIN FrameType : FrameType[other] = FrameType[type] => other = type
  BY SMTT(60) DEF Kind, FrameType
<1> HIDE DEF FrameType
<1> QED
  BY <1>1 DEF GetFrameType, Kind

LEMMA NewFrameFacts ==
    ASSUME NEW type \in Kind
    PROVE  /\ DOMAIN NewFrame(type) = 0..(FrameLength - 1)
           /\ NewFrame(type)[0] = FrameType[type]
           /\ \A i \in 1..(FrameLength - 1) : NewFrame(type)[i] = 0
BY Sizes DEF NewFrame

-----------------------------------------------------------------------------
(***************************************************************************)
(* What the get functions return of what the create functions were given.  *)
(***************************************************************************)
LEMMA RequestFields ==
    ASSUME NEW type \in Kind, NEW fileNum \in Byte,
           NEW chunkNum \in Nat, chunkNum < IntLimit,
           NEW fr, \A i \in 0..5 : fr[i] = CreateChunkRequestFrame(type, fileNum, chunkNum)[i]
    PROVE  GetFrameType(fr) = type /\ GetFileNum(fr) = fileNum /\ GetChunkNum(fr) = chunkNum
<1> DEFINE new == NewFrame(type)
           bytes == <<fileNum>> \o IntBytes(chunkNum)
           frame == CreateChunkRequestFrame(type, fileNum, chunkNum)
<1>1. /\ bytes \in Seq(Byte) /\ Len(bytes) = 5 /\ bytes[1] = fileNum
      /\ \A k \in 1..4 : bytes[k + 1] = IntBytes(chunkNum)[k]
  BY Header
<1>2. DOMAIN new = 0..(FrameLength - 1) /\ new[0] = FrameType[type]
  BY NewFrameFacts
<1>3. 0..5 \subseteq 0..(FrameLength - 1)
  BY Sizes
<1>4. frame = Put(new, 1, bytes)
  BY DEF CreateChunkRequestFrame
<1> HIDE DEF new, bytes, frame
<1>5. /\ \A k \in 1..Len(bytes) : k \in DOMAIN new => frame[k] = bytes[k]
      /\ \A i \in DOMAIN new : i \notin 1..Len(bytes) => frame[i] = new[i]
  <2>1. Len(bytes) \in Nat
    BY <1>1
  <2>2. DOMAIN Put(new, 1, bytes) = DOMAIN new
    BY <2>1, PutFirst
  <2>3. \A k \in 1..Len(bytes) : k \in DOMAIN new => Put(new, 1, bytes)[k] = bytes[k]
    BY <2>1, PutFirst
  <2>4. \A i \in DOMAIN new : i \notin 1..Len(bytes) => Put(new, 1, bytes)[i] = new[i]
    BY <2>1, PutFirst
  <2> QED
    BY <1>4, <2>3, <2>4
<1>6. fr[0] = FrameType[type]
  <2>1. 0 \in DOMAIN new /\ 0 \notin 1..Len(bytes) /\ 0 \in 0..5
    BY <1>1, <1>2, <1>3
  <2> QED
    BY <1>2, <1>5, <2>1 DEF frame
<1>7. ASSUME NEW k \in 1..5 PROVE fr[k] = bytes[k]
  <2>1. k \in 1..Len(bytes) /\ k \in DOMAIN new /\ k \in 0..5
    BY <1>1, <1>2, <1>3
  <2> QED
    BY <1>5, <2>1 DEF frame
<1>8. ASSUME NEW k \in 1..4 PROVE fr[2 + k - 1] = IntBytes(chunkNum)[k]
  <2>1. k + 1 \in 1..5 /\ 2 + k - 1 = k + 1
    OBVIOUS
  <2> QED
    BY <1>1, <1>7, <2>1
<1>9. ParseInt(fr, 2) = chunkNum
  BY <1>8, IntAt
<1>10. fr[1] = fileNum
  BY <1>1, <1>7
<1> QED
  BY <1>6, <1>9, <1>10, TypeRead DEF GetFileNum, GetChunkNum

\* A request for a chunk, and a decline, is read as it was made.
THEOREM RequestIsRead ==
    ASSUME NEW type \in Kind, NEW fileNum \in Byte,
           NEW chunkNum \in Nat, chunkNum < IntLimit
    PROVE  LET frame == CreateChunkRequestFrame(type, fileNum, chunkNum)
           IN  /\ GetFrameType(frame) = type
               /\ GetFileNum(frame) = fileNum /\ GetChunkNum(frame) = chunkNum
<1> DEFINE frame == CreateChunkRequestFrame(type, fileNum, chunkNum)
<1>1. \A i \in 0..5 : frame[i] = CreateChunkRequestFrame(type, fileNum, chunkNum)[i]
  OBVIOUS
<1> HIDE DEF frame
<1>2. GetFrameType(frame) = type /\ GetFileNum(frame) = fileNum /\ GetChunkNum(frame) = chunkNum
  BY <1>1, RequestFields
<1> QED
  BY <1>2 DEF frame

\* So is the frame that carries a chunk: none of its bytes lies over the
\* numbers before them.
THEOREM ChunkIsRead ==
    ASSUME NEW fileNum \in Byte, NEW chunkNum \in Nat, chunkNum < IntLimit,
           NEW chunk \in [1..ChunkSize -> Byte]
    PROVE  LET frame == CreateChunkDataFrame(fileNum, chunkNum, chunk)
           IN  /\ GetFrameType(frame) = "CHUNK"
               /\ GetFileNum(frame) = fileNum /\ GetChunkNum(frame) = chunkNum
               /\ GetChunk(frame) = chunk
<1> DEFINE header == CreateChunkRequestFrame("CHUNK", fileNum, chunkNum)
           frame == CreateChunkDataFrame(fileNum, chunkNum, chunk)
<1>1. /\ ChunkSize \in Nat \ {0} /\ ChunkAt = 6 /\ FrameLength \in Nat
      /\ ChunkAt + ChunkSize <= FrameLength
  BY Sizes
<1>2. chunk \in Seq(Byte) /\ Len(chunk) = ChunkSize
  BY <1>1
<1>3. "CHUNK" \in Kind
  BY DEF Kind, FrameType
<1>4. DOMAIN header = 0..(FrameLength - 1)
  BY <1>3, NewFrameFacts DEF CreateChunkRequestFrame, Put
<1>5. frame = Put(header, ChunkAt, chunk)
  BY DEF CreateChunkDataFrame
<1> HIDE DEF frame, header
<1>6. /\ \A k \in 1..Len(chunk) : ChunkAt + k - 1 \in DOMAIN header => frame[ChunkAt + k - 1] = chunk[k]
      /\ \A i \in DOMAIN header : i \notin ChunkAt..(ChunkAt + Len(chunk) - 1) => frame[i] = header[i]
  <2>1. ChunkAt \in Nat /\ Len(chunk) \in Nat
    BY <1>1, <1>2
  <2>2. /\ DOMAIN Put(header, ChunkAt, chunk) = DOMAIN header
        /\ \A k \in 1..Len(chunk) : ChunkAt + k - 1 \in DOMAIN header
                                       => Put(header, ChunkAt, chunk)[ChunkAt + k - 1] = chunk[k]
        /\ \A i \in DOMAIN header : i \notin ChunkAt..(ChunkAt + Len(chunk) - 1)
                                       => Put(header, ChunkAt, chunk)[i] = header[i]
    BY <2>1, PutFacts
  <2> QED
    BY <1>5, <2>2
<1>7. ASSUME NEW i \in 0..5 PROVE frame[i] = header[i]
  <2>1. i \in DOMAIN header /\ i \notin ChunkAt..(ChunkAt + Len(chunk) - 1)
    BY <1>1, <1>2, <1>4
  <2> QED
    BY <1>6, <2>1
<1>8. GetFrameType(frame) = "CHUNK" /\ GetFileNum(frame) = fileNum /\ GetChunkNum(frame) = chunkNum
  BY <1>3, <1>7, RequestFields DEF header
<1>9. ASSUME NEW k \in 1..ChunkSize PROVE frame[ChunkAt + k - 1] = chunk[k]
  <2>1. k \in 1..Len(chunk) /\ ChunkAt + k - 1 \in DOMAIN header
    BY <1>1, <1>2, <1>4
  <2> QED
    BY <1>6, <2>1
<1>10. GetChunk(frame) = chunk
  <2>1. [i \in 1..ChunkSize |-> frame[ChunkAt + i - 1]] = [i \in 1..ChunkSize |-> chunk[i]]
    BY <1>9
  <2> QED
    BY <2>1 DEF GetChunk
<1> QED
  BY <1>8, <1>10 DEF frame

-----------------------------------------------------------------------------
(***************************************************************************)
(* Frames with the address of a node.                                      *)
(***************************************************************************)
\* A handshake, a join or a leave says who sent it.
THEOREM AddressIsRead ==
    ASSUME NEW type \in Kind,
           NEW ip \in Seq(Letters), Len(ip) <= IpWidth,
           NEW port \in Seq(Letters), Len(port) <= PortWidth
    PROVE  LET frame == CreateAddressFrame(type, ip, port)
           IN  GetFrameType(frame) = type /\ GetIp(frame) = ip /\ GetPort(frame) = port
<1> DEFINE new == NewFrame(type)
           frame == CreateAddressFrame(type, ip, port)
<1>1. DOMAIN new = 0..(FrameLength - 1) /\ new[0] = FrameType[type]
  BY NewFrameFacts
<1>2. frame = SetAddress(new, ip, port)
  BY DEF CreateAddressFrame
<1> HIDE DEF new, frame
<1>3. /\ \A i \in DOMAIN new :
           i \notin 1..(IpWidth + PortWidth + 1) \/ (i = AddressEnd /\ Len(port) < PortWidth)
             => frame[i] = new[i]
      /\ \A fr : (\A i \in 1..(IpWidth + PortWidth) : fr[i] = frame[i]) => GetIp(fr) = ip /\ GetPort(fr) = port
  <2>1. 0..(FrameLength - 1) \subseteq DOMAIN new
    BY <1>1
  <2>2. \A i \in DOMAIN new :
            i \notin 1..(IpWidth + PortWidth + 1) \/ (i = AddressEnd /\ Len(port) < PortWidth)
              => SetAddress(new, ip, port)[i] = new[i]
    BY <2>1, AddressRead
  <2>3. \A fr : (\A i \in 1..(IpWidth + PortWidth) : fr[i] = SetAddress(new, ip, port)[i])
                   => GetIp(fr) = ip /\ GetPort(fr) = port
    BY <2>1, AddressRead
  <2> QED
    BY <1>2, <2>2, <2>3
<1>4. GetIp(frame) = ip /\ GetPort(frame) = port
  BY <1>3
<1>5. frame[0] = FrameType[type]
  <2>1. 0 \in DOMAIN new /\ 0 \notin 1..(IpWidth + PortWidth + 1)
    BY <1>1, Sizes
  <2> QED
    BY <1>1, <1>3, <2>1
<1> QED
  BY <1>4, <1>5, TypeRead DEF frame

\* What an announcement of a chunk is read as.  The address is written last,
\* and the NUL of a port that fills its field falls on the number of the file:
\* then every announcement is of file 0.
THEOREM NewChunkIsRead ==
    ASSUME NEW fileNum \in Byte, NEW chunkNum \in Nat, chunkNum < IntLimit,
           NEW ip \in Seq(Letters), Len(ip) <= IpWidth,
           NEW port \in Seq(Letters), Len(port) <= PortWidth
    PROVE  LET frame == CreateNewChunkAvailableFrame(fileNum, chunkNum, ip, port)
           IN  /\ GetFrameType(frame) = "NEW_CHUNK_AVAILABLE"
               /\ GetIp(frame) = ip /\ GetPort(frame) = port
               /\ GetNewFileNum(frame) = IF Len(port) = PortWidth THEN 0 ELSE fileNum
               /\ GetNewChunkNum(frame) = chunkNum
<1> DEFINE type == "NEW_CHUNK_AVAILABLE"
           new == NewFrame(type)
           bytes == <<fileNum>> \o IntBytes(chunkNum)
           first == Put(new, AddressEnd, bytes)
           frame == CreateNewChunkAvailableFrame(fileNum, chunkNum, ip, port)
<1>1. /\ AddressEnd \in Nat /\ IpWidth \in Nat /\ PortWidth \in Nat /\ FrameLength \in Nat
      /\ AddressEnd = 1 + IpWidth + PortWidth /\ AddressEnd + 9 <= FrameLength /\ Len(port) \in Nat
  BY Sizes, LenProperties
<1>2. type \in Kind
  BY DEF Kind, FrameType, type
<1>3. DOMAIN new = 0..(FrameLength - 1) /\ new[0] = FrameType[type]
  BY <1>2, NewFrameFacts
<1>4. /\ Len(bytes) = 5 /\ bytes[1] = fileNum
      /\ \A k \in 1..4 : bytes[k + 1] = IntBytes(chunkNum)[k]
  BY Header
<1>5. frame = SetAddress(first, ip, port)
  BY DEF CreateNewChunkAvailableFrame
<1> HIDE DEF type, new, bytes, frame
<1>6. /\ DOMAIN first = DOMAIN new
      /\ \A k \in 1..Len(bytes) : AddressEnd + k - 1 \in DOMAIN new
                                    => first[AddressEnd + k - 1] = bytes[k]
      /\ \A i \in DOMAIN new : i \notin AddressEnd..(AddressEnd + Len(bytes) - 1) => first[i] = new[i]
  <2>1. Len(bytes) \in Nat
    BY <1>4
  <2>2. AddressEnd \in Nat
    BY <1>1
  <2>3. /\ DOMAIN Put(new, AddressEnd, bytes) = DOMAIN new
        /\ \A k \in 1..Len(bytes) : AddressEnd + k - 1 \in DOMAIN new
                                       => Put(new, AddressEnd, bytes)[AddressEnd + k - 1] = bytes[k]
        /\ \A i \in DOMAIN new : i \notin AddressEnd..(AddressEnd + Len(bytes) - 1)
                                       => Put(new, AddressEnd, bytes)[i] = new[i]
    BY <2>1, <2>2, PutFacts
  <2> QED
    BY <2>3
<1> HIDE DEF first
<1>7. /\ \A i \in DOMAIN first :
           i \notin 1..(IpWidth + PortWidth + 1) \/ (i = AddressEnd /\ Len(port) < PortWidth)
             => frame[i] = first[i]
      /\ \A fr : (\A i \in 1..(IpWidth + PortWidth) : fr[i] = frame[i]) => GetIp(fr) = ip /\ GetPort(fr) = port
      /\ Len(port) = PortWidth => frame[AddressEnd] = 0
  <2>1. 0..(FrameLength - 1) \subseteq DOMAIN first
    BY <1>3, <1>6
  <2>2. /\ \A i \in DOMAIN first :
             i \notin 1..(IpWidth + PortWidth + 1) \/ (i = AddressEnd /\ Len(port) < PortWidth)
               => SetAddress(first, ip, port)[i] = first[i]
        /\ \A fr : (\A i \in 1..(IpWidth + PortWidth) : fr[i] = SetAddress(first, ip, port)[i])
             => GetIp(fr) = ip /\ GetPort(fr) = port
        /\ Len(port) = PortWidth => SetAddress(first, ip, port)[AddressEnd] = 0
    BY <2>1, AddressRead
  <2> QED
    BY <1>5, <2>2
<1>8. GetIp(frame) = ip /\ GetPort(frame) = port
  BY <1>7
<1>9. frame[0] = FrameType[type]
  <2>1. 0 \in DOMAIN new /\ 0 \notin 1..(IpWidth + PortWidth + 1) /\ 0 \notin AddressEnd..(AddressEnd + Len(bytes) - 1)
    BY <1>1, <1>3
  <2> QED
    BY <1>3, <1>6, <1>7, <2>1
<1>10. frame[AddressEnd] = IF Len(port) = PortWidth THEN 0 ELSE fileNum
  <2>1. CASE Len(port) = PortWidth
    BY <1>7, <2>1
  <2>2. CASE Len(port) # PortWidth
    <3>1. /\ Len(port) < PortWidth /\ AddressEnd \in DOMAIN new
          /\ 1 \in 1..Len(bytes) /\ AddressEnd + 1 - 1 = AddressEnd
      BY <1>1, <1>3, <1>4, <2>2
    <3>2. first[AddressEnd] = fileNum
      BY <1>4, <1>6, <3>1
    <3> QED
      BY <1>6, <1>7, <2>2, <3>1, <3>2
  <2> QED
    BY <2>1, <2>2
<1>11. ASSUME NEW k \in 1..4 PROVE frame[(AddressEnd + 1) + k - 1] = IntBytes(chunkNum)[k]
  <2>1. /\ k + 1 \in 1..Len(bytes) /\ AddressEnd + (k + 1) - 1 = AddressEnd + k
        /\ (AddressEnd + 1) + k - 1 = AddressEnd + k
        /\ AddressEnd + k \in DOMAIN new /\ AddressEnd + k \notin 1..(IpWidth + PortWidth + 1)
    BY <1>1, <1>3, <1>4
  <2>2. first[AddressEnd + k] = bytes[k + 1]
    BY <1>6, <2>1
  <2> QED
    BY <1>4, <1>6, <1>7, <2>1, <2>2
<1>12. ParseInt(frame, AddressEnd + 1) = chunkNum
  <2>1. AddressEnd + 1 \in Nat
    BY <1>1
  <2> QED
    BY <1>11, <2>1, IntAt
<1>13. GetFrameType(frame) = type
  BY <1>2, <1>9, TypeRead
<1> QED
  BY <1>8, <1>10, <1>12, <1>13 DEF frame, type, GetNewFileNum, GetNewChunkNum

-----------------------------------------------------------------------------
(***************************************************************************)
(* Frames with the name of a file.                                         *)
(***************************************************************************)
LEMMA NameBytesFacts ==
    ASSUME NEW name \in Seq(Letters), Len(name) <= NameWidth
    PROVE  /\ NameBytes(name) \in Seq(Byte)
           /\ Len(name) \in Nat /\ Len(NameBytes(name)) \in Len(name)..NameWidth
           /\ \A k \in 1..Len(name) : NameBytes(name)[k] = name[k]
           /\ Len(name) < NameWidth => /\ Len(NameBytes(name)) = Len(name) + 1
                                       /\ NameBytes(name)[Len(name) + 1] = 0
<1>1. NameWidth \in Nat \ {0} /\ Len(name) \in Nat
  BY Sizes, LenProperties
<1>2. name \in Seq(Byte)
  <2>1. Letters \subseteq Byte
    BY DEF Letters
  <2> QED
    BY <2>1, SeqMonotonic
<1>3. CASE Len(name) < NameWidth
  <2>1. 0 \in Byte
    BY Sizes DEF Byte
  <2>2. /\ Append(name, 0) \in Seq(Byte) /\ Len(Append(name, 0)) = Len(name) + 1
        /\ \A k \in 1..Len(name) : Append(name, 0)[k] = name[k]
        /\ Append(name, 0)[Len(name) + 1] = 0
    BY <1>2, <2>1, AppendProperties
  <2>3. NameBytes(name) = Append(name, 0)
    BY <1>3 DEF NameBytes
  <2>4. Len(NameBytes(name)) \in Len(name)..NameWidth
    BY <1>1, <1>3, <2>2, <2>3
  <2> QED
    BY <1>1, <2>2, <2>3, <2>4
<1>4. CASE Len(name) = NameWidth
  <2>1. NameBytes(name) = SubSeq(name, 1, Len(name))
    BY <1>1, <1>4 DEF NameBytes
  <2>2. NameBytes(name) = name
    BY <1>2, <2>1, SubSeqFull
  <2> QED
    BY <1>1, <1>2, <1>4, <2>2
<1> QED
  BY <1>1, <1>3, <1>4

\* A name that begins at a byte of the frame.
LEMMA NameAt ==
    ASSUME NEW name \in Seq(Letters), Len(name) <= NameWidth, NEW frame, NEW at \in Nat,
           \A k \in 1..Len(NameBytes(name)) : frame[at + k - 1] = NameBytes(name)[k]
    PROVE  Text(frame, at, NameWidth) = name
<1>1. /\ Len(name) \in Nat /\ Len(NameBytes(name)) \in Len(name)..NameWidth
      /\ \A k \in 1..Len(name) : NameBytes(name)[k] = name[k]
      /\ Len(name) < NameWidth => /\ Len(NameBytes(name)) = Len(name) + 1
                                  /\ NameBytes(name)[Len(name) + 1] = 0
      /\ NameWidth \in Nat
  BY NameBytesFacts, Sizes
<1>2. ASSUME NEW k \in 1..Len(name) PROVE frame[at + k - 1] = name[k]
  <2>1. k \in 1..Len(NameBytes(name))
    BY <1>1
  <2> QED
    BY <1>1, <2>1
<1>3. ASSUME Len(name) < NameWidth PROVE frame[at + Len(name)] = 0
  <2>1. /\ Len(name) + 1 \in 1..Len(NameBytes(name))
        /\ at + (Len(name) + 1) - 1 = at + Len(name)
    BY <1>1, <1>3
  <2> QED
    BY <1>1, <1>3, <2>1
<1> QED
  BY <1>1, <1>2, <1>3, TextRead

\* What a list tells of a file.
Listed == [fileNum : Byte, fileSize : 0..(IntLimit - 1),
           fileName : {name \in Seq(Letters) : Len(name) <= NameWidth}]

LEMMA IntLimitType == IntLimit \in Nat
BY Sizes, SMT DEF IntLimit

LEMMA ListedFields ==
    ASSUME NEW file \in Listed
    PROVE  /\ file.fileNum \in Byte /\ file.fileSize \in Nat /\ file.fileSize < IntLimit
           /\ file.fileName \in Seq(Letters) /\ Len(file.fileName) <= NameWidth
           /\ file = [fileNum |-> file.fileNum, fileSize |-> file.fileSize, fileName |-> file.fileName]
BY IntLimitType DEF Listed

LEMMA EntryFacts ==
    ASSUME NEW file \in Listed
    PROVE  /\ EntryBytes(file) \in Seq(Byte) /\ Len(EntryBytes(file)) \in 5..FileInfoWidth
           /\ Len(NameBytes(file.fileName)) \in Nat
           /\ Len(EntryBytes(file)) = 5 + Len(NameBytes(file.fileName))
           /\ EntryBytes(file)[1] = file.fileNum
           /\ \A k \in 1..4 : EntryBytes(file)[k + 1] = IntBytes(file.fileSize)[k]
           /\ \A k \in 1..Len(NameBytes(file.fileName)) :
                EntryBytes(file)[5 + k] = NameBytes(file.fileName)[k]
<1> DEFINE head == <<file.fileNum>> \o IntBytes(file.fileSize)
           tail == NameBytes(file.fileName)
           bytes == EntryBytes(file)
<1>1. /\ head \in Seq(Byte) /\ Len(head) = 5 /\ head[1] = file.fileNum
      /\ \A k \in 1..4 : head[k + 1] = IntBytes(file.fileSize)[k]
  BY ListedFields, Header
<1>2. tail \in Seq(Byte) /\ Len(tail) \in 0..NameWidth
  <2>1. file.fileName \in Seq(Letters) /\ Len(file.fileName) <= NameWidth
    BY ListedFields
  <2>2. /\ tail \in Seq(Byte) /\ Len(file.fileName) \in Nat
        /\ Len(tail) \in Len(file.fileName)..NameWidth
    BY <2>1, NameBytesFacts
  <2> QED
    BY <2>2
<1>3. bytes = head \o tail
  BY DEF EntryBytes
<1> HIDE DEF head, tail, bytes
<1>4. /\ head \o tail \in Seq(Byte) /\ Len(head \o tail) = Len(head) + Len(tail)
      /\ Len(head) \in Nat /\ Len(tail) \in Nat
      /\ \A k \in 1..Len(head) : (head \o tail)[k] = head[k]
      /\ \A k \in 1..Len(tail) : (head \o tail)[Len(head) + k] = tail[k]
  BY <1>1, <1>2, Joined
<1>5. \A k \in 1..5 : bytes[k] = head[k]
  BY <1>1, <1>3, <1>4
<1>6. bytes[1] = file.fileNum
  BY <1>1, <1>5
<1>7. ASSUME NEW k \in 1..4 PROVE bytes[k + 1] = IntBytes(file.fileSize)[k]
  <2>1. k + 1 \in 1..5
    OBVIOUS
  <2> QED
    BY <1>1, <1>5, <2>1
<1>8. \A k \in 1..Len(tail) : bytes[5 + k] = tail[k]
  BY <1>1, <1>3, <1>4
<1>9. Len(bytes) = 5 + Len(tail) /\ bytes \in Seq(Byte)
  BY <1>1, <1>3, <1>4
<1>10. Len(bytes) \in 5..FileInfoWidth
  <2>1. FileInfoWidth = 5 + NameWidth /\ NameWidth \in Nat
    BY Sizes DEF FileInfoWidth
  <2> QED
    BY <1>2, <1>9, <2>1
<1> QED
  BY <1>4, <1>6, <1>7, <1>8, <1>9, <1>10 DEF tail, bytes

-----------------------------------------------------------------------------
(***************************************************************************)
(* A list of files.                                                        *)
(***************************************************************************)
LEMMA DivMod ==
    ASSUME NEW w \in Nat \ {0}, NEW a \in Nat, NEW b \in 0..(w - 1)
    PROVE  (a * w + b) \div w = a /\ (a * w + b) % w = b
<1> DEFINE n == a * w + b
           q == n \div w
           r == n % w
<1>1. n \in Nat /\ a * w \in Nat
  BY SMT
<1>2. q \in Nat /\ r \in 0..(w - 1) /\ n = w * q + r
  <2> HIDE DEF n
  <2> QED
    BY <1>1, SMT
<1> HIDE DEF q, r
<1>3. w * q + r = w * a + b
  BY <1>2, SMT
<1>4. ~ (q > a)
  <2> SUFFICES ASSUME q > a PROVE FALSE
    OBVIOUS
  <2>1. q - (a + 1) \in Nat
    BY <1>2
  <2>2. w * (q - (a + 1)) \in Nat
    BY <2>1, SMT
  <2>3. w * q = w * (q - (a + 1)) + w * a + w
    BY <1>2, SMT
  <2> QED
    BY <1>2, <1>3, <2>2, <2>3, SMT
<1>5. ~ (q < a)
  <2> SUFFICES ASSUME q < a PROVE FALSE
    OBVIOUS
  <2>1. a - (q + 1) \in Nat
    BY <1>2
  <2>2. w * (a - (q + 1)) \in Nat
    BY <2>1, SMT
  <2>3. w * a = w * (a - (q + 1)) + w * q + w
    BY <1>2, SMT
  <2> QED
    BY <1>2, <1>3, <2>2, <2>3, SMT
<1>6. q = a
  BY <1>2, <1>4, <1>5
<1>7. r = b
  <2>1. w * a \in Nat
    BY SMT
  <2> QED
    BY <1>2, <1>3, <1>6, <2>1
<1> QED
  BY <1>6, <1>7 DEF q, r

\* There is room for n rows.
RowsFit(start, first, width, n, rows) ==
    /\ FrameLength \in Nat /\ first \in Nat /\ width \in Nat \ {0} /\ n \in Nat
    /\ DOMAIN start = 0..(FrameLength - 1) /\ first + n * width <= FrameLength
    /\ DOMAIN rows = 1..n
    /\ \A k \in 1..n : Len(rows[k]) \in 0..width /\ DOMAIN rows[k] = 1..Len(rows[k])

\* Rows that fit into the frame are read as they were put there.
LEMMA RowsRead ==
    ASSUME NEW start, NEW first, NEW width, NEW n, NEW rows, RowsFit(start, first, width, n, rows)
    PROVE  /\ \A i \in 0..(FrameLength - 1) : i < first => PutRows(start, first, width, rows)[i] = start[i]
           /\ \A k \in 1..n : /\ first + (k - 1) * width \in Nat
                              /\ \A j \in 1..Len(rows[k]) :
                                   PutRows(start, first, width, rows)[first + (k - 1) * width + (j - 1)]
                                     = rows[k][j]
<1> DEFINE row(i) == (i - first) \div width + 1
           place(i) == ((i - first) % width) + 1
           frame == PutRows(start, first, width, rows)
<1>1. frame = [i \in DOMAIN start |->
                 IF i >= first /\ row(i) \in DOMAIN rows /\ place(i) \in DOMAIN rows[row(i)]
                 THEN rows[row(i)][place(i)] ELSE start[i]]
  BY DEF PutRows
<1> HIDE DEF frame
<1>2. /\ FrameLength \in Nat /\ first \in Nat /\ width \in Nat \ {0} /\ n \in Nat
      /\ DOMAIN start = 0..(FrameLength - 1) /\ first + n * width <= FrameLength
      /\ DOMAIN rows = 1..n
  BY DEF RowsFit
<1>3. \A k \in 1..n : Len(rows[k]) \in 0..width /\ DOMAIN rows[k] = 1..Len(rows[k])
  BY DEF RowsFit
<1>4. ASSUME NEW i \in 0..(FrameLength - 1), i < first PROVE frame[i] = start[i]
  <2>1. ~ (i >= first)
    BY <1>2, <1>4
  <2> QED
    BY <1>2, <1>1, <2>1
<1>5. ASSUME NEW k \in 1..n
      PROVE  /\ first + (k - 1) * width \in Nat
             /\ \A j \in 1..Len(rows[k]) : frame[first + (k - 1) * width + (j - 1)] = rows[k][j]
  <2> DEFINE before == (k - 1) * width
  <2>1. k - 1 \in Nat /\ k \in Nat
    BY <1>2
  <2>2. before \in Nat
    BY <1>2, <2>1, SMT
  <2>3. ASSUME NEW j \in 1..Len(rows[k]) PROVE frame[first + before + (j - 1)] = rows[k][j]
    <3> DEFINE i == first + before + (j - 1)
               all == n * width
               after == (n - k) * width
    <3>1. j \in Nat /\ j - 1 \in 0..(width - 1)
      BY <1>2, <1>3
    <3>2. (before + (j - 1)) \div width = k - 1 /\ (before + (j - 1)) % width = j - 1
      BY <1>2, <2>1, <3>1, DivMod
    <3>3. after \in Nat /\ all = after + before + width
      <4>1. n - k \in Nat
        BY <1>2
      <4>2. after \in Nat
        BY <1>2, <4>1, SMT
      <4> QED
        BY <1>2, <4>1, <4>2, SMT
    <3>4. first + all <= FrameLength
      BY <1>2
    <3>5. j \in DOMAIN rows[k]
      BY <1>3
    <3> HIDE DEF before, all, after
    <3>6. i \in DOMAIN start /\ i >= first /\ i - first = before + (j - 1)
      BY <1>2, <2>2, <3>1, <3>3, <3>4
    <3>7. row(i) = k /\ place(i) = j
      <4> HIDE DEF i
      <4> QED
        BY <2>1, <3>1, <3>2, <3>6
    <3> HIDE DEF i, row, place
    <3>8. frame[i] = rows[k][j]
      BY <1>2, <1>1, <3>5, <3>6, <3>7
    <3> QED
      BY <3>8 DEF i
  <2>4. first + before \in Nat
    <3> HIDE DEF before
    <3> QED
      BY <1>2, <2>2
  <2> QED
    BY <2>3, <2>4
<1> QED
  BY <1>4, <1>5 DEF frame

\* A list of files that fits into a frame is read as it was made: no entry
\* lies over another, and a name that fills its field ends with it.
THEOREM FileListIsRead ==
    ASSUME NEW files \in Seq(Listed), Len(files) \in Byte,
           2 + Len(files) * FileInfoWidth <= FrameLength
    PROVE  LET frame == CreateFileListFrame(files)
           IN  GetFrameType(frame) = "FILE_LIST" /\ GetFileInfos(frame) = files
<1> DEFINE type == "FILE_LIST"
           new == NewFrame(type)
           start == Put(new, 1, <<Len(files)>>)
           frame == CreateFileListFrame(files)
           W == FileInfoWidth
           rows == [k \in DOMAIN files |-> EntryBytes(files[k])]
           at(k) == 2 + (k - 1) * W
<1>1. Len(files) \in Nat /\ DOMAIN files = 1..Len(files) /\ W \in Nat \ {0} /\ W = 5 + NameWidth
  BY Sizes, LenProperties DEF FileInfoWidth
<1>2. type \in Kind
  BY DEF Kind, FrameType
<1>3. DOMAIN new = 0..(FrameLength - 1) /\ new[0] = FrameType[type] /\ FrameLength \in Nat /\ 1 < FrameLength
  BY <1>2, NewFrameFacts, Sizes
<1>4. DOMAIN start = DOMAIN new /\ start[0] = new[0] /\ start[1] = Len(files)
  <2> HIDE DEF new
  <2>1. Len(<<Len(files)>>) = 1 /\ <<Len(files)>>[1] = Len(files)
    OBVIOUS
  <2> QED
    BY <1>3, <2>1 DEF Put
<1>5. frame = PutRows(start, 2, W, rows)
  BY DEF CreateFileListFrame
<1>6. /\ DOMAIN rows = 1..Len(files) /\ \A k \in 1..Len(files) : rows[k] = EntryBytes(files[k])
      /\ \A k \in 1..Len(files) : rows[k] \in Seq(Byte) /\ Len(rows[k]) \in 5..W
  <2>1. \A k \in 1..Len(files) : files[k] \in Listed
    BY ElementOfSeq
  <2> QED
    BY <1>1, <2>1, EntryFacts
<1> HIDE DEF new, start, frame, type, rows
<1>7. /\ frame[0] = FrameType[type] /\ frame[1] = Len(files)
      /\ \A k \in 1..Len(files) : \A j \in 1..Len(rows[k]) : frame[2 + (k - 1) * W + (j - 1)] = rows[k][j]
      /\ \A k \in 1..Len(files) : at(k) \in Nat
  <2>1. /\ \A i \in 0..(FrameLength - 1) : i < 2 => PutRows(start, 2, W, rows)[i] = start[i]
        /\ \A k \in 1..Len(files) : /\ 2 + (k - 1) * W \in Nat
                                     /\ \A j \in 1..Len(rows[k]) :
                                          PutRows(start, 2, W, rows)[2 + (k - 1) * W + (j - 1)] = rows[k][j]
    <3>1. DOMAIN start = 0..(FrameLength - 1)
      BY <1>3, <1>4
    <3>2. \A k \in 1..Len(files) : Len(rows[k]) \in 0..W /\ DOMAIN rows[k] = 1..Len(rows[k])
      BY <1>1, <1>6, LenProperties
    <3>3. RowsFit(start, 2, W, Len(files), rows)
      BY <1>1, <1>3, <1>6, <3>1, <3>2 DEF RowsFit
    <3>4. \A i \in 0..(FrameLength - 1) : i < 2 => PutRows(start, 2, W, rows)[i] = start[i]
      BY <3>3, RowsRead
    <3>5. \A k \in 1..Len(files) :
             /\ 2 + (k - 1) * W \in Nat
             /\ \A j \in 1..Len(rows[k]) :
                  PutRows(start, 2, W, rows)[2 + (k - 1) * W + (j - 1)] = rows[k][j]
      BY <3>3, RowsRead
    <3> QED
      BY <3>4, <3>5
  <2>2. 0 \in 0..(FrameLength - 1) /\ 1 \in 0..(FrameLength - 1) /\ 0 < 2 /\ 1 < 2
    BY <1>3
  <2> QED
    BY <1>3, <1>4, <1>5, <2>1, <2>2
<1>8. ASSUME NEW k \in 1..Len(files)
      PROVE  [fileNum |-> frame[at(k)], fileSize |-> ParseInt(frame, at(k) + 1),
              fileName |-> Text(frame, at(k) + 1 + IntWidth, NameWidth)] = files[k]
  <2> DEFINE bytes == EntryBytes(files[k])
             a == at(k)
  <2>1. files[k] \in Listed
    BY ElementOfSeq
  <2>2. /\ files[k].fileNum \in Byte /\ files[k].fileSize \in Nat /\ files[k].fileSize < IntLimit
        /\ files[k].fileName \in Seq(Letters) /\ Len(files[k].fileName) <= NameWidth
        /\ files[k] = [fileNum |-> files[k].fileNum, fileSize |-> files[k].fileSize,
                       fileName |-> files[k].fileName]
    BY <2>1, ListedFields
  <2>3. /\ Len(bytes) = 5 + Len(NameBytes(files[k].fileName))
        /\ bytes[1] = files[k].fileNum
        /\ \A j \in 1..4 : bytes[j + 1] = IntBytes(files[k].fileSize)[j]
        /\ \A j \in 1..Len(NameBytes(files[k].fileName)) : bytes[5 + j] = NameBytes(files[k].fileName)[j]
    BY <2>1, EntryFacts
  <2>4. Len(NameBytes(files[k].fileName)) \in Nat
    BY <2>1, EntryFacts
  <2>5. a \in Nat /\ \A j \in 1..Len(bytes) : frame[a + j - 1] = bytes[j]
    <3>1. a \in Nat /\ bytes = rows[k]
      BY <1>6, <1>7
    <3>2. \A j \in 1..Len(rows[k]) : frame[a + (j - 1)] = rows[k][j]
      BY <1>7
    <3> HIDE DEF a, bytes
    <3>3. \A j \in 1..Len(bytes) : a + (j - 1) = a + j - 1
      BY <3>1
    <3> QED
      BY <3>1, <3>2, <3>3
  <2> HIDE DEF bytes, a
  <2>6. frame[a] = files[k].fileNum
    <3>1. 1 \in 1..Len(bytes) /\ a + 1 - 1 = a
      BY <2>3, <2>4, <2>5
    <3> QED
      BY <2>3, <2>5, <3>1
  <2>7. ParseInt(frame, a + 1) = files[k].fileSize
    <3>1. ASSUME NEW j \in 1..4 PROVE frame[(a + 1) + j - 1] = IntBytes(files[k].fileSize)[j]
      <4>1. j + 1 \in 1..Len(bytes) /\ (a + 1) + j - 1 = a + (j + 1) - 1
        BY <2>3, <2>4, <2>5
      <4> QED
        BY <2>3, <2>5, <4>1
    <3>2. a + 1 \in Nat
      BY <2>5
    <3> QED
      BY <2>2, <3>1, <3>2, IntAt
  <2>8. Text(frame, a + 1 + IntWidth, NameWidth) = files[k].fileName
    <3>1. a + 1 + IntWidth \in Nat /\ a + 1 + IntWidth = a + 5
      BY <2>5 DEF IntWidth
    <3>2. ASSUME NEW j \in 1..Len(NameBytes(files[k].fileName))
          PROVE  frame[(a + 1 + IntWidth) + j - 1] = NameBytes(files[k].fileName)[j]
      <4>1. 5 + j \in 1..Len(bytes) /\ (a + 1 + IntWidth) + j - 1 = a + (5 + j) - 1
        BY <2>3, <2>4, <2>5, <3>1
      <4> QED
        BY <2>3, <2>5, <4>1
    <3> QED
      BY <2>2, <3>1, <3>2, NameAt
  <2> QED
    BY <2>2, <2>6, <2>7, <2>8 DEF a
<1>9. GetFileInfos(frame) = [k \in 1..Len(files) |-> files[k]]
  <2> HIDE DEF at
  <2>1. GetFileInfos(frame) = [k \in 1..Len(files) |->
                                 [fileNum |-> frame[at(k)], fileSize |-> ParseInt(frame, at(k) + 1),
                                  fileName |-> Text(frame, at(k) + 1 + IntWidth, NameWidth)]]
    BY <1>7 DEF GetFileInfos, at
  <2> QED
    BY <1>8, <2>1
<1>10. files = [k \in 1..Len(files) |-> files[k]]
  BY <1>1, LenProperties
<1>11. GetFrameType(frame) = type
  BY <1>2, <1>7, TypeRead
<1> QED
  BY <1>9, <1>10, <1>11 DEF frame, type

\* What an announcement tells of a file.
Announced == [fileNum : Byte, chunkCount : 0..(IntLimit - 1), fileSize : 0..(IntLimit - 1),
              fileName : {name \in Seq(Letters) : Len(name) <= NameWidth}]

\* An announcement of a file is read as it was made: here the address is
\* written first, and the NUL of a port that fills its field is overwritten.
THEOREM NewFileIsRead ==
    ASSUME NEW file \in Announced,
           NEW ip \in Seq(Letters), Len(ip) <= IpWidth,
           NEW port \in Seq(Letters), Len(port) <= PortWidth
    PROVE  LET frame == CreateNewFileAvailableFrame(file, ip, port)
           IN  /\ GetFrameType(frame) = "NEW_FILE_AVAILABLE"
               /\ GetIp(frame) = ip /\ GetPort(frame) = port
               /\ GetFileInfo(frame) = file
<1> DEFINE type == "NEW_FILE_AVAILABLE"
           new == NewFrame(type)
           first == SetAddress(new, ip, port)
           head == <<file.fileNum>> \o IntBytes(file.chunkCount)
           middle == IntBytes(file.fileSize)
           both == head \o middle
           tail == NameBytes(file.fileName)
           bytes == both \o tail
           frame == CreateNewFileAvailableFrame(file, ip, port)
           A == AddressEnd
<1>1. /\ A \in Nat /\ IpWidth \in Nat /\ PortWidth \in Nat /\ FrameLength \in Nat /\ NameWidth \in Nat
      /\ A = 1 + IpWidth + PortWidth /\ A + 9 + NameWidth <= FrameLength
  BY Sizes
<1>2. type \in Kind
  BY DEF Kind, FrameType
<1>3. DOMAIN new = 0..(FrameLength - 1) /\ new[0] = FrameType[type]
  BY <1>2, NewFrameFacts
<1>4. /\ file.fileNum \in Byte
      /\ file.chunkCount \in Nat /\ file.chunkCount < IntLimit
      /\ file.fileSize \in Nat /\ file.fileSize < IntLimit
      /\ file.fileName \in Seq(Letters) /\ Len(file.fileName) <= NameWidth
      /\ file = [fileNum |-> file.fileNum, chunkCount |-> file.chunkCount,
                 fileSize |-> file.fileSize, fileName |-> file.fileName]
  BY IntLimitType DEF Announced
<1>5. /\ head \in Seq(Byte) /\ Len(head) = 5 /\ head[1] = file.fileNum
      /\ \A k \in 1..4 : head[k + 1] = IntBytes(file.chunkCount)[k]
  BY <1>4, Header
<1>6. middle \in Seq(Byte) /\ Len(middle) = 4
  BY <1>4, IntBytesFacts
<1>7. tail \in Seq(Byte) /\ Len(tail) \in 0..NameWidth
  <2>1. /\ tail \in Seq(Byte) /\ Len(file.fileName) \in Nat
        /\ Len(tail) \in Len(file.fileName)..NameWidth
    BY <1>4, NameBytesFacts
  <2> QED
    BY <2>1
<1>8. frame = Put(first, A, bytes)
  BY DEF CreateNewFileAvailableFrame, CreateAddressFrame
<1> HIDE DEF type, new, head, middle, tail, frame, A
<1>9. /\ both \in Seq(Byte) /\ Len(both) = 9
      /\ \A k \in 1..5 : both[k] = head[k]
      /\ \A k \in 1..4 : both[5 + k] = middle[k]
  <2>1. /\ head \o middle \in Seq(Byte) /\ Len(head \o middle) = Len(head) + Len(middle)
        /\ \A k \in 1..Len(head) : (head \o middle)[k] = head[k]
        /\ \A k \in 1..Len(middle) : (head \o middle)[Len(head) + k] = middle[k]
    BY <1>5, <1>6, Joined
  <2>2. Len(head) = 5 /\ Len(middle) = 4
    BY <1>5, <1>6
  <2>3. both \in Seq(Byte) /\ Len(both) = 9
    BY <2>1, <2>2
  <2>4. \A k \in 1..5 : both[k] = head[k]
    BY <2>1, <2>2
  <2>5. \A k \in 1..4 : both[5 + k] = middle[k]
    BY <2>1, <2>2
  <2> QED
    BY <2>3, <2>4, <2>5
<1> HIDE DEF both
<1>10. /\ Len(bytes) = 9 + Len(tail)
       /\ \A k \in 1..9 : bytes[k] = both[k]
       /\ \A k \in 1..Len(tail) : bytes[9 + k] = tail[k]
  <2>1. /\ Len(both \o tail) = Len(both) + Len(tail)
        /\ \A k \in 1..Len(both) : (both \o tail)[k] = both[k]
        /\ \A k \in 1..Len(tail) : (both \o tail)[Len(both) + k] = tail[k]
    BY <1>7, <1>9, Joined
  <2> QED
    BY <1>9, <2>1
<1> HIDE DEF bytes
<1>11. 0..(FrameLength - 1) \subseteq DOMAIN new
  BY <1>3
<1>12. DOMAIN first = DOMAIN new
  BY <1>11, AddressRead
<1>13. \A i \in DOMAIN new :
            i \notin 1..(IpWidth + PortWidth + 1) \/ (i = AddressEnd /\ Len(port) < PortWidth)
              => first[i] = new[i]
  BY <1>11, AddressRead
<1>14. \A fr : (\A i \in 1..(IpWidth + PortWidth) : fr[i] = first[i])
                 => GetIp(fr) = ip /\ GetPort(fr) = port
  BY <1>11, AddressRead
<1> HIDE DEF first
<1>15. Len(bytes) \in 9..(9 + NameWidth)
  BY <1>1, <1>7, <1>10
<1>16. /\ \A k \in 1..Len(bytes) : A + k - 1 \in DOMAIN first => frame[A + k - 1] = bytes[k]
       /\ \A i \in DOMAIN first : i \notin A..(A + Len(bytes) - 1) => frame[i] = first[i]
  <2>1. Len(bytes) \in Nat
    BY <1>1, <1>15
  <2>2. \A k \in 1..Len(bytes) : A + k - 1 \in DOMAIN first => Put(first, A, bytes)[A + k - 1] = bytes[k]
    BY <1>1, <2>1, PutFacts
  <2>3. \A i \in DOMAIN first : i \notin A..(A + Len(bytes) - 1) => Put(first, A, bytes)[i] = first[i]
    BY <1>1, <2>1, PutFacts
  <2> QED
    BY <1>8, <2>2, <2>3
<1>17. \A i \in 0..(IpWidth + PortWidth) : frame[i] = first[i]
  <2> SUFFICES ASSUME NEW i \in 0..(IpWidth + PortWidth) PROVE frame[i] = first[i]
    OBVIOUS
  <2>1. i \in DOMAIN first /\ i \notin A..(A + Len(bytes) - 1)
    BY <1>1, <1>3, <1>12, <1>15
  <2> QED
    BY <1>16, <2>1
<1>18. GetIp(frame) = ip /\ GetPort(frame) = port
  <2>1. \A i \in 1..(IpWidth + PortWidth) : frame[i] = first[i]
    BY <1>1, <1>17
  <2> QED
    BY <1>14, <2>1
<1>19. frame[0] = FrameType[type]
  <2>1. 0 \in 0..(IpWidth + PortWidth) /\ 0 \in DOMAIN new /\ 0 \notin 1..(IpWidth + PortWidth + 1)
    BY SMTT(30), <1>1, <1>3
  <2> QED
    BY <1>3, <1>13, <1>17, <2>1
<1>20. ASSUME NEW k \in 1..Len(bytes) PROVE frame[A + k - 1] = bytes[k]
  <2>1. A + k - 1 \in DOMAIN first
    BY <1>1, <1>3, <1>12, <1>15
  <2> QED
    BY <1>16, <2>1
<1>21. frame[A] = file.fileNum
  <2>1. 1 \in 1..Len(bytes) /\ A + 1 - 1 = A /\ 1 \in 1..9 /\ 1 \in 1..5
    BY <1>1, <1>15
  <2> QED
    BY <1>5, <1>9, <1>10, <1>20, <2>1
<1>22. ParseInt(frame, A + 1) = file.chunkCount
  <2>1. ASSUME NEW k \in 1..4 PROVE frame[(A + 1) + k - 1] = IntBytes(file.chunkCount)[k]
    <3>1. /\ k + 1 \in 1..Len(bytes) /\ (A + 1) + k - 1 = A + (k + 1) - 1
          /\ k + 1 \in 1..9 /\ k + 1 \in 1..5
      BY <1>1, <1>15
    <3> QED
      BY <1>5, <1>9, <1>10, <1>20, <3>1
  <2>2. A + 1 \in Nat
    BY <1>1
  <2> QED
    BY <1>4, <2>1, <2>2, IntAt
<1>23. ParseInt(frame, A + 1 + IntWidth) = file.fileSize
  <2>1. A + 1 + IntWidth \in Nat /\ A + 1 + IntWidth = A + 5
    BY <1>1 DEF IntWidth
  <2>2. ASSUME NEW k \in 1..4 PROVE frame[(A + 1 + IntWidth) + k - 1] = IntBytes(file.fileSize)[k]
    <3>1. /\ 5 + k \in 1..Len(bytes) /\ (A + 1 + IntWidth) + k - 1 = A + (5 + k) - 1
          /\ 5 + k \in 1..9
      BY SMTT(30), <1>1, <1>15, <2>1
    <3> QED
      BY SMTT(30), <1>9, <1>10, <1>20, <3>1 DEF middle
  <2> QED
    BY <1>4, <2>1, <2>2, IntAt
<1>24. Text(frame, A + 1 + 2 * IntWidth, NameWidth) = file.fileName
  <2>1. A + 1 + 2 * IntWidth \in Nat /\ A + 1 + 2 * IntWidth = A + 9
    BY <1>1 DEF IntWidth
  <2>2. ASSUME NEW k \in 1..Len(NameBytes(file.fileName))
        PROVE  frame[(A + 1 + 2 * IntWidth) + k - 1] = NameBytes(file.fileName)[k]
    <3>1. k \in 1..Len(tail)
      BY DEF tail
    <3>2. 9 + k \in 1..Len(bytes) /\ (A + 1 + 2 * IntWidth) + k - 1 = A + (9 + k) - 1
      BY SMTT(30), <1>1, <1>7, <1>10, <2>1, <3>1
    <3> QED
      BY <1>10, <1>20, <3>1, <3>2 DEF tail
  <2> QED
    BY <1>4, <2>1, <2>2, NameAt
<1>25. GetFileInfo(frame) = file
  BY <1>4, <1>21, <1>22, <1>23, <1>24 DEF GetFileInfo, A
<1>26. GetFrameType(frame) = type
  BY <1>2, <1>19, TypeRead
<1> QED
  BY <1>18, <1>25, <1>26 DEF frame, type

-----------------------------------------------------------------------------
(***************************************************************************)
(* Bitmaps.                                                                *)
(***************************************************************************)
LEMMA BitsRead ==
    ASSUME NEW bits \in SUBSET (0..(Bits - 1))
    PROVE  ToByte(bits) \in Byte /\ BitsOf(ToByte(bits)) = bits
BY BitsAssumption DEF ToByte

LEMMA BitmapFacts ==
    /\ BitmapWidth \in Nat /\ MaxChunks = BitmapWidth * Bits
    /\ \A chunks : Bitmap(chunks) \in Seq(Byte) /\ Len(Bitmap(chunks)) = BitmapWidth
<1>1. Bits \in Nat \ {0} /\ MaxChunks \in Nat /\ MaxChunks % Bits = 0
  BY Sizes, FramesAssumption
<1>2. BitmapWidth \in Nat /\ MaxChunks = Bits * BitmapWidth + (MaxChunks % Bits)
  BY <1>1, SMT DEF BitmapWidth
<1>3. MaxChunks = BitmapWidth * Bits
  BY <1>1, <1>2, SMT
<1>4. ASSUME NEW chunks PROVE Bitmap(chunks) \in Seq(Byte) /\ Len(Bitmap(chunks)) = BitmapWidth
  <2>1. \A j \in 1..BitmapWidth : Bitmap(chunks)[j] \in Byte
    BY BitsRead DEF Bitmap
  <2>2. DOMAIN Bitmap(chunks) = 1..BitmapWidth
    BY DEF Bitmap
  <2>3. Bitmap(chunks) = [j \in 1..BitmapWidth |-> Bitmap(chunks)[j]]
    BY DEF Bitmap
  <2>4. Bitmap(chunks) \in [1..BitmapWidth -> Byte]
    BY <2>1, <2>3
  <2> QED
    BY <1>2, <2>4
<1> QED
  BY <1>2, <1>3, <1>4

\* Bit c % Bits of byte c \div Bits is that of chunk c.
LEMMA BitmapRead ==
    ASSUME NEW chunks \in SUBSET (0..(MaxChunks - 1)), NEW c \in 0..(MaxChunks - 1)
    PROVE  /\ (c \div Bits) + 1 \in 1..BitmapWidth
           /\ (c % Bits) \in BitsOf(Bitmap(chunks)[(c \div Bits) + 1]) <=> c \in chunks
<1> DEFINE q == c \div Bits
           r == c % Bits
           j == q + 1
           bits == {k \in 0..(Bits - 1) : (j - 1) * Bits + k \in chunks}
<1>1. Bits \in Nat \ {0} /\ MaxChunks \in Nat /\ BitmapWidth \in Nat /\ MaxChunks = BitmapWidth * Bits
  BY Sizes, BitmapFacts
<1>2. q \in Nat /\ r \in 0..(Bits - 1) /\ c = Bits * q + r
  BY <1>1, SMT
<1> HIDE DEF q, r
<1>3. j \in 1..BitmapWidth
  <2>1. ASSUME ~ (q < BitmapWidth) PROVE FALSE
    <3>1. q - BitmapWidth \in Nat
      BY <1>1, <1>2, <2>1
    <3>2. (q - BitmapWidth) * Bits \in Nat
      BY <1>1, <3>1, SMT
    <3>3. Bits * q = (q - BitmapWidth) * Bits + BitmapWidth * Bits
      BY <1>1, <1>2, SMT
    <3> QED
      BY <1>1, <1>2, <3>2, <3>3
  <2> QED
    BY <1>1, <1>2, <2>1
<1>4. (j - 1) * Bits + r = c
  <2>1. q * Bits = Bits * q /\ q * Bits \in Nat
    BY <1>1, <1>2, SMT
  <2>2. j - 1 = q
    BY <1>2
  <2> QED
    BY <1>1, <1>2, <2>1, <2>2
<1>5. Bitmap(chunks)[j] = ToByte(bits)
  BY <1>3 DEF Bitmap
<1>6. BitsOf(ToByte(bits)) = bits
  BY BitsRead
<1>7. r \in bits <=> c \in chunks
  BY <1>2, <1>4
<1> HIDE DEF bits
<1> QED
  BY <1>3, <1>5, <1>6, <1>7 DEF q, r

\* Which chunks of which files a node has is read as it was sent: each file
\* gets its own bits, and each bit its chunk.
THEOREM ChunkInfoIsRead ==
    ASSUME NEW n \in Byte, NEW chunkMap \in [0..(n - 1) -> SUBSET (0..(MaxChunks - 1))],
           EntryAt(n + 1) <= FrameLength,
           NEW ip \in Seq(Letters), Len(ip) <= IpWidth,
           NEW port \in Seq(Letters), Len(port) <= PortWidth
    PROVE  LET frame == CreateChunkInfoFrame(n, ip, port, chunkMap)
           IN  /\ GetFrameType(frame) = "CHUNK_INFO"
               /\ GetIp(frame) = ip /\ GetPort(frame) = port
               /\ GetChunkMap(frame) = chunkMap
<1> DEFINE type == "CHUNK_INFO"
           new == NewFrame(type)
           address == SetAddress(new, ip, port)
           start == Put(address, AddressEnd, <<n>>)
           W == 1 + BitmapWidth
           at == AddressEnd + 1
           nums == InOrder(DOMAIN chunkMap)
           rows == [k \in DOMAIN nums |-> <<nums[k]>> \o Bitmap(chunkMap[nums[k]])]
           frame == CreateChunkInfoFrame(n, ip, port, chunkMap)
<1>1. /\ IpWidth \in Nat \ {0} /\ PortWidth \in Nat \ {0} /\ FrameLength \in Nat \ {0}
      /\ AddressEnd \in Nat /\ AddressEnd = 1 + IpWidth + PortWidth /\ AddressEnd < FrameLength
      /\ Bits \in Nat \ {0} /\ MaxChunks \in Nat \ {0} /\ NameWidth \in Nat /\ Base \in Nat
  BY Sizes
<1>2. /\ n \in Nat /\ DOMAIN chunkMap = 0..(n - 1)
      /\ BitmapWidth \in Nat /\ W \in Nat \ {0} /\ at \in Nat
  <2>1. n \in Nat
    BY <1>1 DEF Byte
  <2> QED
    BY <1>1, <2>1, BitmapFacts
<1>3. type \in Kind
  BY DEF Kind, FrameType
<1>4. DOMAIN new = 0..(FrameLength - 1) /\ new[0] = FrameType[type]
  BY <1>3, NewFrameFacts
<1>5. DOMAIN nums = 1..n /\ \A k \in 1..n : nums[k] = k - 1
  <2>1. DOMAIN InOrder(0..(n - 1)) = 1..n
    <3>1. 0..(n - 1) \in SUBSET Nat /\ IsFiniteSet(0..(n - 1)) /\ Cardinality(0..(n - 1)) = n
      BY <1>2, FS_Interval
    <3>2. InOrder(0..(n - 1)) \in [1..Cardinality(0..(n - 1)) -> 0..(n - 1)]
      BY <3>1, InOrderFacts
    <3> QED
      BY <3>1, <3>2
  <2>2. \A k \in 1..n : InOrder(0..(n - 1))[k] = k - 1
    BY <1>2, IntervalInOrder
  <2> QED
    BY <1>2, <2>1, <2>2
<1>6. /\ DOMAIN rows = 1..n
      /\ \A k \in 1..n : rows[k] = <<k - 1>> \o Bitmap(chunkMap[k - 1])
  BY <1>2, <1>5
<1>7. frame = PutRows(start, at, W, rows)
  <2>1. EntryAt(1) = at
    <3>1. (1 - 1) * (1 + BitmapWidth) = 0
      BY <1>2
    <3> QED
      BY <1>1, <3>1 DEF EntryAt
  <2> QED
    BY <2>1 DEF CreateChunkInfoFrame, CreateAddressFrame
<1>8. ASSUME NEW k \in 1..n
      PROVE  /\ rows[k] \in Seq(Byte) /\ Len(rows[k]) = W /\ rows[k][1] = k - 1
             /\ \A j \in 1..BitmapWidth : rows[k][1 + j] = Bitmap(chunkMap[k - 1])[j]
  <2> DEFINE bitmap == Bitmap(chunkMap[k - 1])
  <2>1. bitmap \in Seq(Byte) /\ Len(bitmap) = BitmapWidth
    BY BitmapFacts
  <2>2. k - 1 \in Byte
    BY <1>1, <1>2 DEF Byte
  <2>3. <<k - 1>> \in Seq(Byte) /\ Len(<<k - 1>>) = 1 /\ <<k - 1>>[1] = k - 1
    BY <2>2
  <2> HIDE DEF bitmap
  <2>4. /\ <<k - 1>> \o bitmap \in Seq(Byte) /\ Len(<<k - 1>> \o bitmap) = Len(<<k - 1>>) + Len(bitmap)
        /\ \A i \in 1..Len(<<k - 1>>) : (<<k - 1>> \o bitmap)[i] = <<k - 1>>[i]
        /\ \A j \in 1..Len(bitmap) : (<<k - 1>> \o bitmap)[Len(<<k - 1>>) + j] = bitmap[j]
    BY <2>1, <2>3, Joined
  <2>5. rows[k] = <<k - 1>> \o bitmap
    BY <1>6 DEF bitmap
  <2> HIDE DEF rows
  <2>6. rows[k] \in Seq(Byte) /\ Len(rows[k]) = W
    BY <2>1, <2>3, <2>4, <2>5
  <2>7. rows[k][1] = k - 1
    BY <2>3, <2>4, <2>5
  <2>8. \A j \in 1..BitmapWidth : rows[k][1 + j] = bitmap[j]
    BY <2>1, <2>3, <2>4, <2>5
  <2> QED
    BY <2>6, <2>7, <2>8 DEF bitmap
<1> HIDE DEF type, new, rows, nums, W, at, frame
<1>9. /\ DOMAIN start = 0..(FrameLength - 1) /\ start[0] = FrameType[type] /\ start[AddressEnd] = n
      /\ \A i \in 1..(IpWidth + PortWidth) : start[i] = address[i]
  <2>1. 0..(FrameLength - 1) \subseteq DOMAIN new
    BY <1>4
  <2>2. DOMAIN address = DOMAIN new
    BY <2>1, AddressRead
  <2>3. \A i \in DOMAIN new :
            i \notin 1..(IpWidth + PortWidth + 1) \/ (i = AddressEnd /\ Len(port) < PortWidth)
              => address[i] = new[i]
    BY <2>1, AddressRead
  <2>4. Len(<<n>>) = 1 /\ <<n>>[1] = n
    OBVIOUS
  <2> HIDE DEF address
  <2>5. \A i \in DOMAIN address : i # AddressEnd => start[i] = address[i]
    BY <1>1, <2>4 DEF Put
  <2>6. DOMAIN start = DOMAIN address /\ start[AddressEnd] = n
    <3>1. AddressEnd \in DOMAIN address
      BY <1>1, <1>4, <2>2
    <3> QED
      BY <1>1, <2>4, <3>1 DEF Put
  <2>7. start[0] = new[0]
    <3>1. 0 \in DOMAIN new /\ 0 # AddressEnd /\ 0 \notin 1..(IpWidth + PortWidth + 1)
      BY <1>1, <1>4
    <3> QED
      BY <2>2, <2>3, <2>5, <3>1
  <2>8. ASSUME NEW i \in 1..(IpWidth + PortWidth) PROVE start[i] = address[i]
    <3>1. i \in DOMAIN address /\ i # AddressEnd
      BY <1>1, <1>4, <2>2
    <3> QED
      BY <2>5, <3>1
  <2> HIDE DEF start
  <2> QED
    BY <1>4, <2>2, <2>6, <2>7, <2>8
<1>10. \A fr : (\A i \in 1..(IpWidth + PortWidth) : fr[i] = address[i])
                 => GetIp(fr) = ip /\ GetPort(fr) = port
  <2>1. 0..(FrameLength - 1) \subseteq DOMAIN new
    BY <1>4
  <2> QED
    BY <2>1, AddressRead
<1> HIDE DEF address, start
<1>11. RowsFit(start, at, W, n, rows)
  <2>1. at + n * W <= FrameLength
    <3>1. EntryAt(n + 1) = AddressEnd + 1 + ((n + 1) - 1) * (1 + BitmapWidth)
      BY DEF EntryAt
    <3>2. (n + 1) - 1 = n
      BY <1>2
    <3> QED
      BY <3>1, <3>2 DEF at, W
  <2>2. \A k \in 1..n : Len(rows[k]) \in 0..W /\ DOMAIN rows[k] = 1..Len(rows[k])
    BY <1>2, <1>8, LenProperties
  <2> QED
    BY <1>1, <1>2, <1>6, <1>9, <2>1, <2>2 DEF RowsFit
<1>12. \A i \in 0..(FrameLength - 1) : i < at => frame[i] = start[i]
  BY <1>7, <1>11, RowsRead
<1>13. \A k \in 1..n : /\ at + (k - 1) * W \in Nat
                       /\ \A j \in 1..Len(rows[k]) : frame[at + (k - 1) * W + (j - 1)] = rows[k][j]
  BY <1>7, <1>11, RowsRead
<1>14. GetIp(frame) = ip /\ GetPort(frame) = port
  <2>1. \A i \in 1..(IpWidth + PortWidth) : frame[i] = start[i]
    BY <1>1, <1>12 DEF at
  <2> QED
    BY <1>9, <1>10, <2>1
<1>15. frame[0] = FrameType[type] /\ frame[AddressEnd] = n
  BY <1>1, <1>9, <1>12 DEF at
<1>16. \A k \in 1..n : EntryAt(k) = at + (k - 1) * W /\ EntryAt(k) \in Nat
  BY <1>13 DEF EntryAt, at, W
<1>17. ASSUME NEW k \in 1..n PROVE frame[EntryAt(k)] = k - 1
  <2>1. 1 \in 1..Len(rows[k]) /\ 1 - 1 = 0
    BY <1>2, <1>8
  <2>2. frame[at + (k - 1) * W + (1 - 1)] = rows[k][1]
    BY <1>13, <2>1
  <2>3. at + (k - 1) * W + (1 - 1) = EntryAt(k)
    BY <1>13, <1>16
  <2> QED
    BY <1>8, <2>2, <2>3
<1>18. ASSUME NEW k \in 1..n, NEW j \in 1..BitmapWidth
       PROVE  frame[EntryAt(k) + 1 + (j - 1)] = Bitmap(chunkMap[k - 1])[j]
  <2> DEFINE before == (k - 1) * W
  <2>1. at + before \in Nat /\ EntryAt(k) = at + before
    BY <1>13, <1>16
  <2>2. 1 + j \in 1..Len(rows[k])
    BY <1>2, <1>8 DEF W
  <2>3. frame[at + before + ((1 + j) - 1)] = rows[k][1 + j]
    BY <1>13, <2>2
  <2> HIDE DEF before
  <2>4. at + before + ((1 + j) - 1) = EntryAt(k) + 1 + (j - 1)
    BY <1>2, <2>1
  <2> QED
    BY <1>8, <2>3, <2>4
<1> DEFINE entries == 1..frame[AddressEnd]
           entry(p) == CHOOSE k \in entries : /\ frame[EntryAt(k)] = p
                                              /\ \A j \in 1..(k - 1) : frame[EntryAt(j)] # p
<1>19. entries = 1..n /\ {frame[EntryAt(k)] : k \in entries} = 0..(n - 1)
  <2>1. {frame[EntryAt(k)] : k \in 1..n} = {k - 1 : k \in 1..n}
    BY <1>17
  <2>2. {k - 1 : k \in 1..n} = 0..(n - 1)
    <3>1. ASSUME NEW m \in 0..(n - 1) PROVE m \in {k - 1 : k \in 1..n}
      <4>1. m + 1 \in 1..n /\ m = (m + 1) - 1
        BY <1>2
      <4> QED
        BY <4>1
    <3>2. {k - 1 : k \in 1..n} \subseteq 0..(n - 1)
      BY <1>2
    <3> QED
      BY <3>1, <3>2
  <2> QED
    BY <1>15, <2>1, <2>2
<1>20. ASSUME NEW p \in 0..(n - 1) PROVE entry(p) = p + 1
  <2>1. p + 1 \in 1..n /\ frame[EntryAt(p + 1)] = p
    BY <1>2, <1>17
  <2>2. ASSUME NEW j \in 1..((p + 1) - 1) PROVE frame[EntryAt(j)] # p
    <3>1. j \in 1..n /\ j - 1 # p
      BY <1>2
    <3> QED
      BY <1>17, <3>1
  <2>3. ASSUME NEW k \in 1..n, frame[EntryAt(k)] = p PROVE k = p + 1
    <3>1. k - 1 = p
      BY <1>17, <2>3
    <3> QED
      BY <1>2, <3>1
  <2> HIDE DEF entries
  <2> QED
    BY <1>19, <2>1, <2>2, <2>3
<1>21. ASSUME NEW p \in 0..(n - 1)
       PROVE  {c \in 0..(MaxChunks - 1) :
                 (c % Bits) \in BitsOf(frame[EntryAt(entry(p)) + 1 + (c \div Bits)])} = chunkMap[p]
  <2> DEFINE chunks == chunkMap[p]
  <2>1. chunks \in SUBSET (0..(MaxChunks - 1))
    BY <1>2
  <2>2. p + 1 \in 1..n /\ (p + 1) - 1 = p
    BY <1>2
  <2>3. ASSUME NEW c \in 0..(MaxChunks - 1)
        PROVE  (c % Bits) \in BitsOf(frame[EntryAt(p + 1) + 1 + (c \div Bits)]) <=> c \in chunks
    <3>1. /\ (c \div Bits) + 1 \in 1..BitmapWidth
          /\ (c % Bits) \in BitsOf(Bitmap(chunks)[(c \div Bits) + 1]) <=> c \in chunks
      BY <2>1, BitmapRead
    <3>2. c \div Bits \in Int
      BY <1>1, SMT
    <3> DEFINE q == c \div Bits
    <3> HIDE DEF q
    <3>3. (q + 1) - 1 = q
      BY <3>2 DEF q
    <3>4. frame[EntryAt(p + 1) + 1 + ((q + 1) - 1)] = Bitmap(chunkMap[(p + 1) - 1])[q + 1]
      BY <1>18, <2>2, <3>1 DEF q
    <3>5. frame[EntryAt(p + 1) + 1 + q] = Bitmap(chunks)[q + 1]
      BY <2>2, <3>3, <3>4
    <3> QED
      BY <3>1, <3>5 DEF q
  <2>4. entry(p) = p + 1
    BY <1>20
  <2> HIDE DEF entry, chunks
  <2>5. {c \in 0..(MaxChunks - 1) :
           (c % Bits) \in BitsOf(frame[EntryAt(p + 1) + 1 + (c \div Bits)])} = chunks
    BY <2>1, <2>3
  <2> QED
    BY <2>4, <2>5 DEF chunks
<1>22. GetChunkMap(frame) =
         [p \in {frame[EntryAt(k)] : k \in entries} |->
            {c \in 0..(MaxChunks - 1) :
               (c % Bits) \in BitsOf(frame[EntryAt(entry(p)) + 1 + (c \div Bits)])}]
  BY DEF GetChunkMap
<1> HIDE DEF entries, entry
<1>23. GetChunkMap(frame) = [p \in 0..(n - 1) |-> chunkMap[p]]
  BY <1>19, <1>21, <1>22
<1>24. GetChunkMap(frame) = chunkMap
  BY <1>23
<1>25. GetFrameType(frame) = type
  BY <1>3, <1>15, TypeRead
<1> QED
  BY <1>14, <1>24, <1>25 DEF frame, type
-----------------------------------------------------------------------------
(***************************************************************************)
(* Chunks of files.                                                        *)
(***************************************************************************)
\* Numbers of the chunks of a file.
ChunkNums(size) == 0..(ChunkCount(size) - 1)

LEMMA SizeIsPositive == ChunkSize \in Nat \ {0}
  BY GlobalsAssumption

-----------------------------------------------------------------------------
(***************************************************************************)
(* Arithmetic.                                                             *)
(***************************************************************************)
LEMMA Division ==
  ASSUME NEW a \in Nat, NEW b \in Nat \ {0}
  PROVE  /\ a \div b \in Nat /\ a % b \in Nat /\ a % b < b
         /\ a = b * (a \div b) + (a % b)
  BY SMT

LEMMA NextMultiple ==
  ASSUME NEW a \in Nat, NEW b \in Nat, NEW k \in Nat, a < b
  PROVE  /\ a * k \in Nat /\ b * k \in Nat
         /\ a * k + k <= b * k
  BY SMT

LEMMA ProductType ==
  ASSUME NEW a \in Nat, NEW b \in Nat
  PROVE  a * b \in Nat /\ a * b = b * a
  BY SMT

-----------------------------------------------------------------------------
(***************************************************************************)
(* Counting chunks.                                                        *)
(***************************************************************************)
\* The last chunk begins before the end of the file and does not end before it.
LEMMA CountBounds ==
  ASSUME NEW size \in Nat \ {0}
  PROVE  /\ ChunkCount(size) \in Nat \ {0}
         /\ (ChunkCount(size) - 1) * ChunkSize \in Nat
         /\ (ChunkCount(size) - 1) * ChunkSize < size
         /\ size <= (ChunkCount(size) - 1) * ChunkSize + ChunkSize
<1> DEFINE d == size \div ChunkSize
           r == size % ChunkSize
<1>1. ChunkSize \in Nat \ {0}
  BY SizeIsPositive
<1>2. d \in Nat /\ r \in Nat /\ r < ChunkSize /\ size = ChunkSize * d + r
  BY <1>1, Division
<1>3. d * ChunkSize \in Nat /\ d * ChunkSize = ChunkSize * d
  BY <1>1, <1>2, ProductType
<1>4. CASE r = 0
  <2>1. ChunkCount(size) = d
    BY <1>2, <1>4 DEF ChunkCount
  <2> HIDE DEF d, r
  <2>2. d # 0
    BY <1>1, <1>2, <1>4, SMT
  <2>3. (d - 1) * ChunkSize = d * ChunkSize - ChunkSize
    BY <1>1, <1>2, SMT
  <2>4. d - 1 \in Nat /\ (d - 1) * ChunkSize \in Nat
    BY <1>1, <1>2, <2>2, ProductType, SMT
  <2> QED
    BY <1>1, <1>2, <1>3, <1>4, <2>1, <2>2, <2>3, <2>4, SMT
<1>5. CASE r # 0
  <2>1. ChunkCount(size) = d + 1
    BY <1>2, <1>5 DEF ChunkCount
  <2> HIDE DEF d, r
  <2>2. (d + 1) - 1 = d
    BY <1>2, SMT
  <2> QED
    BY <1>1, <1>2, <1>3, <1>5, <2>1, <2>2, SMT
<1> QED
  BY <1>4, <1>5

\* A chunk is written in full or, if it is the last, up to the end of the file.
LEMMA WriteSizeBounds ==
  ASSUME NEW size \in Nat \ {0}, NEW c \in ChunkNums(size)
  PROVE  /\ c \in Nat /\ c * ChunkSize \in Nat
         /\ WriteSize(c, size) \in 1..ChunkSize
         /\ c * ChunkSize + WriteSize(c, size) <= size
         /\ c # ChunkCount(size) - 1 => WriteSize(c, size) = ChunkSize
         /\ c = ChunkCount(size) - 1 => c * ChunkSize + WriteSize(c, size) = size
<1> DEFINE last == ChunkCount(size) - 1
<1>1. ChunkSize \in Nat \ {0}
  BY SizeIsPositive
<1>2. /\ last \in Nat /\ last * ChunkSize \in Nat
      /\ last * ChunkSize < size /\ size <= last * ChunkSize + ChunkSize
  BY CountBounds
<1>3. c \in Nat /\ c <= last
  BY <1>2 DEF ChunkNums
<1>4. c * ChunkSize \in Nat
  BY <1>1, <1>3, ProductType
<1>5. CASE c = last
  <2>1. WriteSize(c, size) = size - last * ChunkSize
    BY <1>5 DEF WriteSize
  <2> HIDE DEF last
  <2> QED
    BY <1>1, <1>2, <1>3, <1>4, <1>5, <2>1 DEF last
<1>6. CASE c # last
  <2>1. WriteSize(c, size) = ChunkSize
    BY <1>6 DEF WriteSize
  <2>2. c < last
    BY <1>2, <1>3, <1>6
  <2>3. c * ChunkSize + ChunkSize <= last * ChunkSize
    BY <1>1, <1>2, <1>3, <2>2, NextMultiple
  <2> QED
    BY <1>1, <1>2, <1>3, <1>4, <1>6, <2>1, <2>3
<1> QED
  BY <1>5, <1>6

-----------------------------------------------------------------------------
(***************************************************************************)
(* Chunks tile the file.                                                   *)
(***************************************************************************)
\* No chunk reaches beyond the file, short last chunk or not: the write size
\* of writeChunk() is right for every size.
THEOREM SpansWithin ==
  ASSUME NEW size \in Nat \ {0}, NEW c \in ChunkNums(size)
  PROVE  Span(c, size) \subseteq 0..(size - 1)
<1>1. /\ c * ChunkSize \in Nat /\ WriteSize(c, size) \in Nat
      /\ c * ChunkSize + WriteSize(c, size) <= size
  BY WriteSizeBounds, SizeIsPositive
<1> QED
  BY <1>1 DEF Span

\* Two chunks have no byte in common.
THEOREM SpansDisjoint ==
  ASSUME NEW size \in Nat \ {0}, NEW c \in ChunkNums(size), NEW d \in ChunkNums(size), c # d
  PROVE  Span(c, size) \cap Span(d, size) = {}
<1>1. ASSUME NEW x \in ChunkNums(size), NEW y \in ChunkNums(size), x < y
      PROVE  Span(x, size) \cap Span(y, size) = {}
  <2>1. /\ x \in Nat /\ x * ChunkSize \in Nat /\ WriteSize(x, size) \in 1..ChunkSize
        /\ y \in Nat /\ y * ChunkSize \in Nat /\ WriteSize(y, size) \in 1..ChunkSize
    BY WriteSizeBounds
  <2>2. x * ChunkSize + ChunkSize <= y * ChunkSize
    BY <1>1, <2>1, SizeIsPositive, NextMultiple
  <2> QED
    BY <2>1, <2>2, SizeIsPositive DEF Span
<1>2. c \in Nat /\ d \in Nat
  BY WriteSizeBounds
<1>3. c < d \/ d < c
  BY <1>2
<1> QED
  BY <1>1, <1>3

\* Every byte of the file is in a chunk, that of its index divided by the
\* size of chunks.
THEOREM SpansCover ==
  ASSUME NEW size \in Nat \ {0}, NEW i \in 0..(size - 1)
  PROVE  \E c \in ChunkNums(size) : i \in Span(c, size)
<1> DEFINE c == i \div ChunkSize
           last == ChunkCount(size) - 1
<1>1. ChunkSize \in Nat \ {0} /\ i \in Nat /\ i < size
  BY SizeIsPositive
<1>2. c \in Nat /\ i % ChunkSize \in Nat /\ i % ChunkSize < ChunkSize
      /\ i = ChunkSize * c + (i % ChunkSize)
  BY <1>1, Division
<1>3. c * ChunkSize \in Nat /\ c * ChunkSize = ChunkSize * c
  BY <1>1, <1>2, ProductType
<1>4. c * ChunkSize <= i /\ i < c * ChunkSize + ChunkSize
  <2> HIDE DEF c
  <2> QED
    BY <1>1, <1>2, <1>3
<1>5. /\ last \in Nat /\ last * ChunkSize \in Nat
      /\ size <= last * ChunkSize + ChunkSize
  BY CountBounds
<1> HIDE DEF c, last
<1>6. c <= last
  <2>1. SUFFICES ASSUME last < c PROVE FALSE
    BY <1>2, <1>5
  <2>2. last * ChunkSize + ChunkSize <= c * ChunkSize
    BY <1>1, <1>2, <1>5, <2>1, NextMultiple
  <2> QED
    BY <1>1, <1>3, <1>4, <1>5, <2>2
<1>7. c \in ChunkNums(size)
  BY <1>2, <1>5, <1>6 DEF ChunkNums, last
<1>8. i < c * ChunkSize + WriteSize(c, size)
  <2>1. CASE c = ChunkCount(size) - 1
    BY <1>1, <1>7, <2>1, WriteSizeBounds
  <2>2. CASE c # ChunkCount(size) - 1
    BY <1>4, <1>7, <2>2, WriteSizeBounds
  <2> QED
    BY <2>1, <2>2
<1>9. WriteSize(c, size) \in Nat
  BY <1>1, <1>7, WriteSizeBounds
<1>10. i \in Span(c, size)
  BY <1>1, <1>3, <1>4, <1>8, <1>9 DEF Span
<1> QED
  BY <1>7, <1>10

-----------------------------------------------------------------------------
(***************************************************************************)
(* Writing and reading.                                                    *)
(***************************************************************************)
\* A file of zeros.
Zeros(size) == [i \in 0..(size - 1) |-> 0]

LEMMA WriteToOld ==
  ASSUME NEW store, NEW name \in DOMAIN store, NEW c, NEW chunk, NEW size
  PROVE  /\ name \in DOMAIN WriteChunk(store, name, c, chunk, size)
         /\ WriteChunk(store, name, c, chunk, size)[name] = Overwrite(store[name], c, chunk, size)
  BY DEF WriteChunk, CreateFileIfNotExists

LEMMA WriteToNew ==
  ASSUME NEW store, NEW name, name \notin DOMAIN store, NEW c, NEW chunk, NEW size
  PROVE  /\ name \in DOMAIN WriteChunk(store, name, c, chunk, size)
         /\ WriteChunk(store, name, c, chunk, size)[name] = Overwrite(Zeros(size), c, chunk, size)
  BY DEF WriteChunk, CreateFileIfNotExists, Zeros

LEMMA SpanEnds ==
  ASSUME NEW size \in Nat \ {0}, NEW c \in ChunkNums(size)
  PROVE  Span(c, size) \subseteq 0..(c * ChunkSize + WriteSize(c, size) - 1)
<1>1. c * ChunkSize \in Nat /\ WriteSize(c, size) \in Nat
  BY WriteSizeBounds, SizeIsPositive
<1> QED
  BY <1>1 DEF Span

LEMMA OverwriteDomain ==
  ASSUME NEW content, NEW size, NEW c, NEW chunk
  PROVE  DOMAIN Overwrite(content, c, chunk, size) =
           DOMAIN content \cup 0..(c * ChunkSize + WriteSize(c, size) - 1)
  BY DEF Overwrite

LEMMA OverwriteInside ==
  ASSUME NEW content, NEW size \in Nat \ {0}, NEW c \in ChunkNums(size), NEW chunk,
         NEW i \in Span(c, size)
  PROVE  /\ i \in DOMAIN Overwrite(content, c, chunk, size)
         /\ Overwrite(content, c, chunk, size)[i] = chunk[i - c * ChunkSize + 1]
  BY SpanEnds DEF Overwrite

LEMMA OverwriteOutside ==
  ASSUME NEW content, NEW size, NEW c, NEW chunk, NEW i \in DOMAIN content,
         i \notin Span(c, size)
  PROVE  Overwrite(content, c, chunk, size)[i] = content[i]
  BY DEF Overwrite

\* What readChunk() returns of a chunk that writeChunk() has written is what
\* was written, as far as the file goes: both seek to the same place.
THEOREM ReadReturnsWritten ==
  ASSUME NEW store, NEW name, NEW size \in Nat \ {0}, NEW c \in ChunkNums(size), NEW chunk,
         NEW buffer, NEW k \in 1..WriteSize(c, size)
  PROVE  ReadChunk(WriteChunk(store, name, c, chunk, size), name, c, buffer)[k] = chunk[k]
<1> DEFINE after == WriteChunk(store, name, c, chunk, size)
           i == c * ChunkSize + k - 1
<1>1. /\ ChunkSize \in Nat /\ c * ChunkSize \in Nat /\ WriteSize(c, size) \in Nat
      /\ WriteSize(c, size) <= ChunkSize
  BY WriteSizeBounds, SizeIsPositive
<1>2. k \in 1..ChunkSize /\ i \in Span(c, size) /\ i - c * ChunkSize + 1 = k
  BY <1>1 DEF Span
<1>3. name \in DOMAIN after /\ i \in DOMAIN after[name] /\ after[name][i] = chunk[k]
  <2> HIDE DEF i
  <2>1. CASE name \in DOMAIN store
    <3>1. name \in DOMAIN after /\ after[name] = Overwrite(store[name], c, chunk, size)
      BY <2>1, WriteToOld
    <3> HIDE DEF after
    <3> QED
      BY <1>2, <3>1, OverwriteInside
  <2>2. CASE name \notin DOMAIN store
    <3>1. name \in DOMAIN after /\ after[name] = Overwrite(Zeros(size), c, chunk, size)
      BY <2>2, WriteToNew
    <3> HIDE DEF after
    <3> QED
      BY <1>2, <3>1, OverwriteInside
  <2> QED
    BY <2>1, <2>2
<1> HIDE DEF after
<1>4. ReadChunk(after, name, c, buffer)[k] = chunk[k]
  BY <1>2, <1>3 DEF ReadChunk
<1> QED
  BY <1>4 DEF after

\* A chunk is not changed by writing another one, in any order.
THEOREM OthersAreKept ==
  ASSUME NEW store, NEW name \in DOMAIN store, NEW size \in Nat \ {0},
         NEW c \in ChunkNums(size), NEW d \in ChunkNums(size), c # d, NEW chunk,
         NEW i \in Span(d, size), i \in DOMAIN store[name]
  PROVE  WriteChunk(store, name, c, chunk, size)[name][i] = store[name][i]
<1>1. i \notin Span(c, size)
  BY SpansDisjoint
<1>2. WriteChunk(store, name, c, chunk, size)[name] = Overwrite(store[name], c, chunk, size)
  BY WriteToOld
<1>3. Overwrite(store[name], c, chunk, size)[i] = store[name][i]
  BY <1>1, OverwriteOutside
<1> QED
  BY <1>2, <1>3

\* A file that is not there before its first chunk is written has its length
\* from then on, whatever chunks are written.
THEOREM LengthIsKept ==
  ASSUME NEW store, NEW name, NEW size \in Nat \ {0}, NEW c \in ChunkNums(size), NEW chunk,
         name \in DOMAIN store => DOMAIN store[name] = 0..(size - 1)
  PROVE  DOMAIN WriteChunk(store, name, c, chunk, size)[name] = 0..(size - 1)
<1>1. /\ c * ChunkSize \in Nat /\ WriteSize(c, size) \in Nat
      /\ c * ChunkSize + WriteSize(c, size) <= size
  BY WriteSizeBounds, SizeIsPositive
<1>2. 0..(c * ChunkSize + WriteSize(c, size) - 1) \subseteq 0..(size - 1)
  BY <1>1
<1>3. CASE name \in DOMAIN store
  <2>1. WriteChunk(store, name, c, chunk, size)[name] = Overwrite(store[name], c, chunk, size)
    BY <1>3, WriteToOld
  <2>2. DOMAIN Overwrite(store[name], c, chunk, size) =
          0..(size - 1) \cup 0..(c * ChunkSize + WriteSize(c, size) - 1)
    BY <1>3, OverwriteDomain
  <2> QED
    BY <1>2, <2>1, <2>2
<1>4. CASE name \notin DOMAIN store
  <2>1. WriteChunk(store, name, c, chunk, size)[name] = Overwrite(Zeros(size), c, chunk, size)
    BY <1>4, WriteToNew
  <2>2. DOMAIN Zeros(size) = 0..(size - 1)
    BY DEF Zeros
  <2>3. DOMAIN Overwrite(Zeros(size), c, chunk, size) =
          0..(size - 1) \cup 0..(c * ChunkSize + WriteSize(c, size) - 1)
    BY <2>2, OverwriteDomain
  <2> QED
    BY <1>2, <2>1, <2>3
<1> QED
  BY <1>3, <1>4
=============================================================================
