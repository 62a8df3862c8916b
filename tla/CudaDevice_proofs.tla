------------------------- MODULE CudaDevice_proofs -------------------------
(***************************************************************************)
(* Whichever call fails, the device gives back all that it took, each      *)
(* once: for any number of streams, any batches, any number of buckets,    *)
(* and the card doing its work at any time.                                *)
(*                                                                         *)
(* The calls of newDevice are written out as a script of 26 and the takes  *)
(* of the shards (NewDeviceIs), so that what is held is known by how many  *)
(* calls were made (TakenAre); the calls of close are found to be drops of *)
(* what is known, each once, after a wait for the card (CloseCalls).       *)
(***************************************************************************)
EXTENDS CudaDevice, SequenceLemmas, FiniteSetTheorems

-----------------------------------------------------------------------------
(* What there is to take.                                                   *)

Buffers == ToSet(DeviceBuffers) \cup ToSet(HostBuffers)

PartsOf(k) ==
    {Of(k, "stream")} \cup {Of(k, name) : name \in Buffers}
        \cup {Scratch(k, level) : level \in DOMAIN Levels}

Parts == UNION {PartsOf(k) : k \in Shards}

Wholes == {Whole(name) : name \in {"driver", "compiler", "program", "context", "module"}
                                      \cup CardTables}

\* The operations a shard is given.
Names == {"upload vector", "upload indices", "quotient", "diagonal", "buckets", "reduce",
          "normalize", "download"}
Operations == [name : Names, b : 0..PerStream, level : Nat]

\* What newDevice asks for.
Questions == {"symbols", "capability", "compile", "ptx", "functions", "memory"}

Ons ==
    Wholes \cup Parts \cup Questions \cup CardTables \cup {Default, All} \cup Shards
        \cup (Shards \X Operations)
Asking == {"ask", "take", "copy", "sync", "drop", "free", "fill", "queue", "collect"}
Calls == [call : Asking, on : Ons]

-----------------------------------------------------------------------------
(* The levels of the reduction.                                             *)

\* A level of the reduction is shorter than the one before (levels).
LEMMA Shorter ==
    ASSUME NEW n \in Nat, n >= 2, NEW g \in Nat, g >= 2
    PROVE  CeilDiv(n, g) \in 1..(n - 1)
<1> DEFINE q == (n + g - 1) \div g
<1>1. q \in Int /\ g * q <= n + g - 1 /\ n + g - 1 < g * q + g
  OBVIOUS
<1>2. q >= 1
  OBVIOUS
<1>3. q <= n - 1
  OBVIOUS
<1> QED BY <1>1, <1>2, <1>3 DEF CeilDiv

LevelAt(f, n) == IF n = 1 THEN <<1>> ELSE <<n>> \o f[CeilDiv(n, Group)]

LevelsUp(f, n) == f = [m \in 1..n |-> LevelAt(f, m)]

\* The recursion of the levels has a solution.
LEMMA LevelsExist ==
    ASSUME NEW n \in Nat \ {0}
    PROVE  \E f : LevelsUp(f, n)
<1> DEFINE K == {k \in 0..(n - 1) : \E f : LevelsUp(f, k + 1)}
<1>1. 0 \in K
  <2> DEFINE f == [m \in 1..1 |-> <<1>>]
  <2>1. \A m \in 1..1 : m = 1 /\ f[m] = <<1>>
    OBVIOUS
  <2>2. f = [m \in 1..1 |-> LevelAt(f, m)]
    <3>1. \A m \in 1..1 : LevelAt(f, m) = <<1>>
      BY <2>1 DEF LevelAt
    <3> QED BY <3>1
  <2>3. LevelsUp(f, 0 + 1)
    BY <2>2 DEF LevelsUp
  <2> QED BY <2>3
<1>2. \A k \in 0..((n - 1) - 1) : k \in K => k + 1 \in K
  <2> SUFFICES ASSUME NEW k \in 0..((n - 1) - 1), k \in K PROVE k + 1 \in K
    OBVIOUS
  <2>1. PICK f : LevelsUp(f, k + 1)
    OBVIOUS
  <2> DEFINE g == [m \in 1..(k + 2) |-> IF m = k + 2 THEN LevelAt(f, k + 2) ELSE f[m]]
  <2>2. g[k + 2] = LevelAt(f, k + 2) /\ \A m \in 1..(k + 1) : g[m] = f[m]
    <3>1. k + 2 \in 1..(k + 2) /\ \A m \in 1..(k + 1) : m \in 1..(k + 2) /\ m # k + 2
      OBVIOUS
    <3> QED BY <3>1
  <2>3. g = [m \in 1..(k + 2) |-> g[m]]
    OBVIOUS
  <2> HIDE DEF g
  <2>4. \A m \in 1..(k + 2) : m # 1 => CeilDiv(m, Group) \in 1..(k + 1)
    <3> TAKE m \in 1..(k + 2)
    <3> HAVE m # 1
    <3>1. m \in Nat /\ m >= 2 /\ Group \in Nat /\ Group >= 2
      BY DeviceAssumption
    <3>2. CeilDiv(m, Group) \in 1..(m - 1)
      BY <3>1, Shorter
    <3> QED BY <3>2
  <2>5. \A m \in 1..(k + 2) : LevelAt(g, m) = LevelAt(f, m)
    BY <2>2, <2>4 DEF LevelAt
  <2>6. \A m \in 1..(k + 1) : f[m] = LevelAt(f, m)
    BY <2>1 DEF LevelsUp
  <2>7. \A m \in 1..(k + 2) : g[m] = LevelAt(g, m)
    <3> TAKE m \in 1..(k + 2)
    <3>1. m = k + 2 \/ m \in 1..(k + 1)
      OBVIOUS
    <3> QED BY <2>2, <2>5, <2>6, <3>1
  <2>8. LevelsUp(g, k + 2)
    BY <2>3, <2>7 DEF LevelsUp
  <2>9. (k + 1) + 1 = k + 2 /\ k + 1 \in 0..(n - 1)
    OBVIOUS
  <2> QED BY <2>8, <2>9
<1>3. n - 1 \in Nat /\ n - 1 \in 0..(n - 1) /\ (n - 1) + 1 = n
  OBVIOUS
<1>4. 0..(n - 1) \subseteq K
  <2> HIDE DEF K
  <2> QED BY <1>1, <1>2, <1>3, Upwards
<1> QED BY <1>3, <1>4

\* The levels are a sequence of lengths (levels).
LEMMA LevelsType == Levels \in Seq(Nat) /\ Len(Levels) \in Nat /\ DOMAIN Levels = 1..Len(Levels)
<1>1. LevelsUp(LevelsFrom, BucketCount)
  <2>1. PICK f : LevelsUp(f, BucketCount)
    BY LevelsExist, DeviceAssumption
  <2> QED BY <2>1 DEF LevelsUp, LevelAt, LevelsFrom
<1> DEFINE K == {k \in 0..BucketCount : \A m \in 1..k : LevelsFrom[m] \in Seq(Nat)}
<1>2. 0 \in K
  BY DeviceAssumption
<1>3. \A k \in 0..(BucketCount - 1) : k \in K => k + 1 \in K
  <2> SUFFICES ASSUME NEW k \in 0..(BucketCount - 1), k \in K PROVE k + 1 \in K
    OBVIOUS
  <2>1. k + 1 \in 1..BucketCount /\ \A m \in 1..(k + 1) : m = k + 1 \/ m \in 1..k
    BY DeviceAssumption
  <2>2. LevelsFrom[k + 1] = LevelAt(LevelsFrom, k + 1)
    BY <1>1, <2>1 DEF LevelsUp
  <2>3. LevelAt(LevelsFrom, k + 1) \in Seq(Nat)
    <3>1. CASE k + 1 = 1
      <4>1. <<1>> \in Seq(Nat)
        OBVIOUS
      <4> QED BY <3>1, <4>1 DEF LevelAt
    <3>2. CASE k + 1 # 1
      <4> DEFINE c == CeilDiv(k + 1, Group)
      <4>1. k + 1 \in Nat /\ k + 1 >= 2 /\ Group \in Nat /\ Group >= 2 /\ (k + 1) - 1 = k
        BY <3>2, DeviceAssumption
      <4>2. c \in 1..k
        BY <4>1, Shorter
      <4> HIDE DEF c
      <4>3. LevelsFrom[c] \in Seq(Nat)
        BY <4>2
      <4>4. <<k + 1>> \in Seq(Nat)
        BY <4>1
      <4>5. <<k + 1>> \o LevelsFrom[c] \in Seq(Nat)
        <5> DEFINE s == <<k + 1>>
                   t == LevelsFrom[c]
                   joined == s \o t
        <5>1. s \in Seq(Nat) /\ t \in Seq(Nat) /\ joined = s \o t
          BY <4>3, <4>4
        <5> HIDE DEF s, t, joined
        <5>2. joined \in Seq(Nat)
          BY <5>1, Joins
        <5> QED BY <5>2 DEF s, t, joined
      <4> QED BY <3>2, <4>5 DEF LevelAt, c
    <3> QED BY <3>1, <3>2
  <2> HIDE DEF LevelsFrom
  <2>4. \A m \in 1..(k + 1) : LevelsFrom[m] \in Seq(Nat)
    BY <2>1, <2>2, <2>3
  <2>5. k + 1 \in 0..BucketCount
    BY <2>1
  <2> QED BY <2>4, <2>5
<1>4. BucketCount \in Nat /\ BucketCount \in 1..BucketCount /\ BucketCount \in 0..BucketCount
  BY DeviceAssumption
<1>5. 0..BucketCount \subseteq K
  <2> HIDE DEF K
  <2> QED BY <1>2, <1>3, <1>4, Upwards
<1>6. Levels \in Seq(Nat)
  BY <1>4, <1>5 DEF Levels
<1> QED BY <1>6

-----------------------------------------------------------------------------
(* The calls of newDevice.                                                  *)

\* Those before the first shard.
Script == <<
    Call("take", Whole("driver")), Call("ask", "symbols"), Call("take", Whole("compiler")),
    Call("ask", "symbols"), Call("ask", "capability"), Call("take", Whole("program")),
    Call("ask", "compile"), Call("ask", "ptx"), Call("drop", Whole("program")),
    Call("take", Whole("context")), Call("take", Whole("module")), Call("ask", "functions"),
    Call("take", Whole("bases")), Call("copy", "bases"), Call("sync", Default),
    Call("take", Whole("table")), Call("copy", "table"), Call("sync", All),
    Call("free", Whole("bases")), Call("take", Whole("roots")), Call("copy", "roots"),
    Call("sync", Default), Call("take", Whole("differences")), Call("copy", "differences"),
    Call("sync", Default), Call("ask", "memory")>>

\* The calls from one place in the script to another.
Runs(s, i, n) ==
    /\ s \in Seq(Calls) /\ Len(s) = n - i
    /\ \A x \in 1..(n - i) : s[x] = Script[i + x]

\* Call by call.
LEMMA ScriptIs ==
    /\ Script[1] = Call("take", Whole("driver"))
    /\ Script[2] = Call("ask", "symbols")
    /\ Script[3] = Call("take", Whole("compiler"))
    /\ Script[4] = Call("ask", "symbols")
    /\ Script[5] = Call("ask", "capability")
    /\ Script[6] = Call("take", Whole("program"))
    /\ Script[7] = Call("ask", "compile")
    /\ Script[8] = Call("ask", "ptx")
    /\ Script[9] = Call("drop", Whole("program"))
    /\ Script[10] = Call("take", Whole("context"))
    /\ Script[11] = Call("take", Whole("module"))
    /\ Script[12] = Call("ask", "functions")
    /\ Script[13] = Call("take", Whole("bases"))
    /\ Script[14] = Call("copy", "bases")
    /\ Script[15] = Call("sync", Default)
    /\ Script[16] = Call("take", Whole("table"))
    /\ Script[17] = Call("copy", "table")
    /\ Script[18] = Call("sync", All)
    /\ Script[19] = Call("free", Whole("bases"))
    /\ Script[20] = Call("take", Whole("roots"))
    /\ Script[21] = Call("copy", "roots")
    /\ Script[22] = Call("sync", Default)
    /\ Script[23] = Call("take", Whole("differences"))
    /\ Script[24] = Call("copy", "differences")
    /\ Script[25] = Call("sync", Default)
    /\ Script[26] = Call("ask", "memory")
BY DEF Script

\* They are calls of the driver.
LEMMA ScriptType == \A i \in 1..26 : Script[i] \in Calls
<1>1. Wholes \subseteq Ons /\ Questions \cup CardTables \subseteq Ons /\ Default \in Ons /\ All \in Ons
  BY DEF Ons
<1>2. \A name \in {"driver", "compiler", "program", "context", "module", "bases", "table",
                   "roots", "differences"} : Whole(name) \in Ons
  BY <1>1 DEF Wholes, CardTables
<1>3. \A c \in {"ask", "take", "copy", "sync", "drop", "free"} : \A on \in Ons : Call(c, on) \in Calls
  BY DEF Calls, Call, Asking
<1>4. \A name \in {"symbols", "capability", "compile", "ptx", "functions", "memory", "bases",
                   "table", "roots", "differences"} : name \in Ons
  BY <1>1 DEF Questions, CardTables
<1>6. /\ Script[1] \in Calls /\ Script[2] \in Calls /\ Script[3] \in Calls
      /\ Script[4] \in Calls /\ Script[5] \in Calls /\ Script[6] \in Calls
      /\ Script[7] \in Calls /\ Script[8] \in Calls /\ Script[9] \in Calls
      /\ Script[10] \in Calls /\ Script[11] \in Calls /\ Script[12] \in Calls
      /\ Script[13] \in Calls /\ Script[14] \in Calls /\ Script[15] \in Calls
      /\ Script[16] \in Calls /\ Script[17] \in Calls /\ Script[18] \in Calls
      /\ Script[19] \in Calls /\ Script[20] \in Calls /\ Script[21] \in Calls
      /\ Script[22] \in Calls /\ Script[23] \in Calls /\ Script[24] \in Calls
      /\ Script[25] \in Calls /\ Script[26] \in Calls
  BY <1>1, <1>2, <1>3, <1>4, ScriptIs
<1> HIDE DEF Script
<1> QED BY <1>6

\* A call of the script.
LEMMA RunsOne ==
    ASSUME NEW i \in 0..25, NEW n, n = i + 1, NEW c, c = Script[n]
    PROVE  Runs(<<c>>, i, n)
<1>1. c \in Calls /\ n - i = 1
  <2>1. i + 1 \in 1..26
    OBVIOUS
  <2> QED BY <2>1, ScriptType
<1>2. \A x \in 1..1 : Script[i + x] = c
  OBVIOUS
<1>3. <<c>> \in Seq(Calls) /\ Len(<<c>>) = 1 /\ <<c>>[1] = c
  BY <1>1
<1> QED BY <1>1, <1>2, <1>3 DEF Runs

\* One part of the script after another.
LEMMA RunsOn ==
    ASSUME NEW i \in 0..26, NEW m \in i..26, NEW n \in m..26, NEW s, NEW t,
           Runs(s, i, m), Runs(t, m, n)
    PROVE  Runs(s \o t, i, n)
<1> DEFINE joined == s \o t
<1>0. joined = s \o t
  OBVIOUS
<1> HIDE DEF joined
<1>1. s \in Seq(Calls) /\ t \in Seq(Calls) /\ Len(s) = m - i /\ Len(t) = n - m
  BY DEF Runs
<1>2. /\ joined \in Seq(Calls) /\ Len(joined) = Len(s) + Len(t)
      /\ \A x \in 1..Len(s) : joined[x] = s[x]
      /\ \A x \in 1..Len(t) : joined[Len(s) + x] = t[x]
  <2>1. s \in Seq(Calls) /\ t \in Seq(Calls)
    BY <1>1
  <2> DEFINE C == Calls
  <2>2. s \in Seq(C) /\ t \in Seq(C) /\ joined = s \o t
    BY <1>0, <2>1
  <2> HIDE DEF C
  <2>3. /\ joined \in Seq(C) /\ Len(joined) = Len(s) + Len(t)
        /\ \A x \in 1..Len(s) : joined[x] = s[x]
        /\ \A x \in 1..Len(t) : joined[Len(s) + x] = t[x]
    BY ONLY <2>2, Joins
  <2> QED BY <2>3 DEF C
<1>3. ASSUME NEW x \in 1..(n - i) PROVE joined[x] = Script[i + x]
  <2>1. CASE x \in 1..(m - i)
    BY <1>1, <1>2, <2>1 DEF Runs
  <2>2. CASE x \notin 1..(m - i)
    <3> DEFINE y == x - (m - i)
    <3>1. y \in 1..(n - m) /\ Len(s) + y = x /\ m + y = i + x
      BY <1>1, <2>2
    <3> HIDE DEF y
    <3>2. joined[Len(s) + y] = t[y] /\ t[y] = Script[m + y]
      BY <1>1, <1>2, <3>1 DEF Runs
    <3> QED BY <3>1, <3>2
  <2> QED BY <2>1, <2>2
<1>4. Len(joined) = n - i
  BY <1>1, <1>2
<1>5. Runs(joined, i, n)
  BY <1>2, <1>3, <1>4 DEF Runs
<1> QED BY <1>5 DEF joined

\* What newDevice asks for and takes before it comes to the shards.
Prefix ==
    LoadDriver \o Ask("capability") \o Compile \o Take(Whole("context")) \o Take(Whole("module"))
        \o Ask("functions") \o Upload("bases") \o Take(Whole("table"))
        \o <<Call("copy", "table")>> \o Sync(All) \o <<Call("free", Whole("bases"))>>
        \o Upload("roots") \o Upload("differences") \o Ask("memory")

\* It is the script.
LEMMA PrefixRuns == Runs(Prefix, 0, 26)
<1>1. Runs(<<Call("take", Whole("driver"))>>, 0, 1)
  BY ScriptIs, RunsOne
<1>2. Runs(<<Call("ask", "symbols")>>, 1, 2)
  BY ScriptIs, RunsOne
<1>3. Runs(<<Call("take", Whole("compiler"))>>, 2, 3)
  BY ScriptIs, RunsOne
<1>4. Runs(<<Call("ask", "symbols")>>, 3, 4)
  BY ScriptIs, RunsOne
<1>5. Runs(<<Call("ask", "capability")>>, 4, 5)
  BY ScriptIs, RunsOne
<1>6. Runs(<<Call("take", Whole("program"))>>, 5, 6)
  BY ScriptIs, RunsOne
<1>7. Runs(<<Call("ask", "compile")>>, 6, 7)
  BY ScriptIs, RunsOne
<1>8. Runs(<<Call("ask", "ptx")>>, 7, 8)
  BY ScriptIs, RunsOne
<1>9. Runs(<<Call("drop", Whole("program"))>>, 8, 9)
  BY ScriptIs, RunsOne
<1>10. Runs(<<Call("take", Whole("context"))>>, 9, 10)
  BY ScriptIs, RunsOne
<1>11. Runs(<<Call("take", Whole("module"))>>, 10, 11)
  BY ScriptIs, RunsOne
<1>12. Runs(<<Call("ask", "functions")>>, 11, 12)
  BY ScriptIs, RunsOne
<1>13. Runs(<<Call("take", Whole("bases"))>>, 12, 13)
  BY ScriptIs, RunsOne
<1>14. Runs(<<Call("copy", "bases")>>, 13, 14)
  BY ScriptIs, RunsOne
<1>15. Runs(<<Call("sync", Default)>>, 14, 15)
  BY ScriptIs, RunsOne
<1>16. Runs(<<Call("take", Whole("table"))>>, 15, 16)
  BY ScriptIs, RunsOne
<1>17. Runs(<<Call("copy", "table")>>, 16, 17)
  BY ScriptIs, RunsOne
<1>18. Runs(<<Call("sync", All)>>, 17, 18)
  BY ScriptIs, RunsOne
<1>19. Runs(<<Call("free", Whole("bases"))>>, 18, 19)
  BY ScriptIs, RunsOne
<1>20. Runs(<<Call("take", Whole("roots"))>>, 19, 20)
  BY ScriptIs, RunsOne
<1>21. Runs(<<Call("copy", "roots")>>, 20, 21)
  BY ScriptIs, RunsOne
<1>22. Runs(<<Call("sync", Default)>>, 21, 22)
  BY ScriptIs, RunsOne
<1>23. Runs(<<Call("take", Whole("differences"))>>, 22, 23)
  BY ScriptIs, RunsOne
<1>24. Runs(<<Call("copy", "differences")>>, 23, 24)
  BY ScriptIs, RunsOne
<1>25. Runs(<<Call("sync", Default)>>, 24, 25)
  BY ScriptIs, RunsOne
<1>26. Runs(<<Call("ask", "memory")>>, 25, 26)
  BY ScriptIs, RunsOne
<1>31. Runs(LoadDriver, 0, 4)
  <2>1. Runs(Take(Whole("driver")) \o Ask("symbols"), 0, 2)
    BY <1>1, <1>2, RunsOn DEF Take, Ask
  <2>2. Runs(Take(Whole("driver")) \o Ask("symbols") \o Take(Whole("compiler")), 0, 3)
    BY <1>3, <2>1, RunsOn DEF Take
  <2> QED BY <1>4, <2>2, RunsOn DEF LoadDriver, Ask
<1>32. Runs(Compile, 5, 9)
  <2>1. Runs(Take(Whole("program")) \o Ask("compile"), 5, 7)
    BY <1>6, <1>7, RunsOn DEF Take, Ask
  <2>2. Runs(Take(Whole("program")) \o Ask("compile") \o Ask("ptx"), 5, 8)
    BY <1>8, <2>1, RunsOn DEF Ask
  <2> QED BY <1>9, <2>2, RunsOn DEF Compile
<1>33. Runs(Upload("bases"), 12, 15)
  <2>1. Runs(Take(Whole("bases")) \o <<Call("copy", "bases")>>, 12, 14)
    BY <1>13, <1>14, RunsOn DEF Take
  <2> QED BY <1>15, <2>1, RunsOn DEF Upload, Sync
<1>34. Runs(Upload("roots"), 19, 22)
  <2>1. Runs(Take(Whole("roots")) \o <<Call("copy", "roots")>>, 19, 21)
    BY <1>20, <1>21, RunsOn DEF Take
  <2> QED BY <1>22, <2>1, RunsOn DEF Upload, Sync
<1>35. Runs(Upload("differences"), 22, 25)
  <2>1. Runs(Take(Whole("differences")) \o <<Call("copy", "differences")>>, 22, 24)
    BY <1>23, <1>24, RunsOn DEF Take
  <2> QED BY <1>25, <2>1, RunsOn DEF Upload, Sync
<1> DEFINE p4 == LoadDriver
           p5 == p4 \o Ask("capability")
           p9 == p5 \o Compile
           p10 == p9 \o Take(Whole("context"))
           p11 == p10 \o Take(Whole("module"))
           p12 == p11 \o Ask("functions")
           p15 == p12 \o Upload("bases")
           p16 == p15 \o Take(Whole("table"))
           p17 == p16 \o <<Call("copy", "table")>>
           p18 == p17 \o Sync(All)
           p19 == p18 \o <<Call("free", Whole("bases"))>>
           p22 == p19 \o Upload("roots")
           p25 == p22 \o Upload("differences")
           p26 == p25 \o Ask("memory")
<1> HIDE DEF p4, p5, p9, p10, p11, p12, p15, p16, p17, p18, p19, p22, p25, p26
<1>40. Runs(p4, 0, 4)
  BY <1>31 DEF p4
<1>41. Runs(p5, 0, 5)
  BY <1>5, <1>40, RunsOn DEF p5, Ask
<1>42. Runs(p9, 0, 9)
  BY <1>32, <1>41, RunsOn DEF p9
<1>43. Runs(p10, 0, 10)
  BY <1>10, <1>42, RunsOn DEF p10, Take
<1>44. Runs(p11, 0, 11)
  BY <1>11, <1>43, RunsOn DEF p11, Take
<1>45. Runs(p12, 0, 12)
  BY <1>12, <1>44, RunsOn DEF p12, Ask
<1>46. Runs(p15, 0, 15)
  BY <1>33, <1>45, RunsOn DEF p15
<1>47. Runs(p16, 0, 16)
  BY <1>16, <1>46, RunsOn DEF p16, Take
<1>48. Runs(p17, 0, 17)
  BY <1>17, <1>47, RunsOn DEF p17
<1>49. Runs(p18, 0, 18)
  BY <1>18, <1>48, RunsOn DEF p18, Sync
<1>50. Runs(p19, 0, 19)
  BY <1>19, <1>49, RunsOn DEF p19
<1>51. Runs(p22, 0, 22)
  BY <1>34, <1>50, RunsOn DEF p22
<1>52. Runs(p25, 0, 25)
  BY <1>35, <1>51, RunsOn DEF p25
<1>53. Runs(p26, 0, 26)
  BY <1>26, <1>52, RunsOn DEF p26, Ask
<1> QED BY <1>53 DEF Prefix, p4, p5, p9, p10, p11, p12, p15, p16, p17, p18, p19, p22, p25, p26

\* A sequence of takes.
LEMMA TakeEach ==
    ASSUME NEW n \in Nat, NEW f, \A i \in 1..n : f[i] \in Parts,
           NEW s, s = [i \in 1..n |-> Call("take", f[i])]
    PROVE  /\ s \in Seq(Calls)
           /\ ToSet(s) = {Call("take", f[i]) : i \in 1..n}
<1>1. \A i \in 1..n : Call("take", f[i]) \in Calls
  BY DEF Calls, Call, Ons, Asking
<1>2. s \in Seq(Calls) /\ DOMAIN s = 1..n
  BY <1>1
<1> QED BY <1>2 DEF ToSet

\* A shard takes its parts (newShard).
LEMMA ShardTakes ==
    ASSUME NEW k \in Shards
    PROVE  /\ NewShard(k) \in Seq(Calls)
           /\ ToSet(NewShard(k)) = {Call("take", r) : r \in PartsOf(k)}
<1> DEFINE a == [i \in 1..1 |-> Call("take", Of(k, <<"stream">>[i]))]
           b == [i \in 1..5 |-> Call("take", Of(k, DeviceBuffers[i]))]
           c == [level \in 1..Len(Levels) |-> Call("take", Scratch(k, level))]
           d == [i \in 1..3 |-> Call("take", Of(k, HostBuffers[i]))]
<1>1. NewShard(k) = ((a \o b) \o c) \o d
  <2>1. DOMAIN <<"stream">> = 1..1 /\ DOMAIN DeviceBuffers = 1..5 /\ DOMAIN HostBuffers = 1..3
    BY DEF DeviceBuffers, HostBuffers
  <2> QED BY <2>1, LevelsType DEF NewShard
<1>2. PartsOf(k) \subseteq Parts
  BY DEF Parts
<1>3. /\ Of(k, "stream") \in PartsOf(k)
      /\ \A i \in 1..5 : Of(k, DeviceBuffers[i]) \in PartsOf(k)
      /\ \A i \in 1..3 : Of(k, HostBuffers[i]) \in PartsOf(k)
      /\ \A level \in 1..Len(Levels) : Scratch(k, level) \in PartsOf(k)
  <2>1. \A i \in 1..5 : DeviceBuffers[i] \in Buffers
    BY DEF Buffers, DeviceBuffers, ToSet
  <2>2. \A i \in 1..3 : HostBuffers[i] \in Buffers
    BY DEF Buffers, HostBuffers, ToSet
  <2> QED BY <2>1, <2>2, LevelsType DEF PartsOf
<1>4. a \in Seq(Calls) /\ ToSet(a) = {Call("take", Of(k, "stream"))}
  <2> DEFINE f == [i \in 1..1 |-> Of(k, "stream")]
  <2>1. \A i \in 1..1 : f[i] \in Parts
    BY <1>2, <1>3
  <2>2. a = [i \in 1..1 |-> Call("take", f[i])]
    OBVIOUS
  <2>3. {Call("take", f[i]) : i \in 1..1} = {Call("take", Of(k, "stream"))}
    OBVIOUS
  <2> HIDE DEF a, f
  <2> QED BY <2>1, <2>2, <2>3, TakeEach
<1>5. b \in Seq(Calls) /\ ToSet(b) = {Call("take", Of(k, DeviceBuffers[i])) : i \in 1..5}
  <2> DEFINE f == [i \in 1..5 |-> Of(k, DeviceBuffers[i])]
             n == 5
  <2>1. n \in Nat /\ \A i \in 1..n : f[i] \in Parts
    BY <1>2, <1>3
  <2>2. b = [i \in 1..n |-> Call("take", f[i])]
    OBVIOUS
  <2>3. {Call("take", f[i]) : i \in 1..n} = {Call("take", Of(k, DeviceBuffers[i])) : i \in 1..n}
    OBVIOUS
  <2> HIDE DEF b, f, n
  <2>4. b \in Seq(Calls) /\ ToSet(b) = {Call("take", f[i]) : i \in 1..n}
    BY ONLY <2>1, <2>2, TakeEach
  <2> QED BY <2>3, <2>4 DEF n
<1>6. d \in Seq(Calls) /\ ToSet(d) = {Call("take", Of(k, HostBuffers[i])) : i \in 1..3}
  <2> DEFINE f == [i \in 1..3 |-> Of(k, HostBuffers[i])]
             n == 3
  <2>1. n \in Nat /\ \A i \in 1..n : f[i] \in Parts
    BY <1>2, <1>3
  <2>2. d = [i \in 1..n |-> Call("take", f[i])]
    OBVIOUS
  <2>3. {Call("take", f[i]) : i \in 1..n} = {Call("take", Of(k, HostBuffers[i])) : i \in 1..n}
    OBVIOUS
  <2> HIDE DEF d, f, n
  <2>4. d \in Seq(Calls) /\ ToSet(d) = {Call("take", f[i]) : i \in 1..n}
    BY ONLY <2>1, <2>2, TakeEach
  <2> QED BY <2>3, <2>4 DEF n
<1>7. c \in Seq(Calls) /\ ToSet(c) = {Call("take", Scratch(k, level)) : level \in 1..Len(Levels)}
  <2> DEFINE f == [level \in 1..Len(Levels) |-> Scratch(k, level)]
             n == Len(Levels)
  <2>1. \A i \in 1..n : f[i] \in Parts
    BY <1>2, <1>3
  <2>2. c = [i \in 1..n |-> Call("take", f[i])]
    OBVIOUS
  <2>3. {Call("take", f[i]) : i \in 1..n} = {Call("take", Scratch(k, i)) : i \in 1..n}
    OBVIOUS
  <2>4. n \in Nat
    BY LevelsType
  <2> HIDE DEF c, f, n
  <2>5. c \in Seq(Calls) /\ ToSet(c) = {Call("take", f[i]) : i \in 1..n}
    BY <2>1, <2>2, <2>4, TakeEach
  <2> QED BY <2>3, <2>5 DEF n
<1> HIDE DEF a, b, c, d
<1>8. /\ ((a \o b) \o c) \o d \in Seq(Calls)
      /\ ToSet(((a \o b) \o c) \o d) = ((ToSet(a) \cup ToSet(b)) \cup ToSet(c)) \cup ToSet(d)
  <2>1. a \o b \in Seq(Calls) /\ ToSet(a \o b) = ToSet(a) \cup ToSet(b)
    BY <1>4, <1>5, JoinOnce
  <2> DEFINE ab == a \o b
  <2>2. ab \in Seq(Calls)
    BY <2>1
  <2> HIDE DEF ab
  <2>3. ab \o c \in Seq(Calls) /\ ToSet(ab \o c) = ToSet(ab) \cup ToSet(c)
    BY <1>7, <2>2, JoinOnce
  <2> DEFINE abc == ab \o c
  <2>4. abc \in Seq(Calls)
    BY <2>3
  <2> HIDE DEF abc
  <2>5. abc \o d \in Seq(Calls) /\ ToSet(abc \o d) = ToSet(abc) \cup ToSet(d)
    BY <1>6, <2>4, JoinOnce
  <2> QED BY <2>1, <2>3, <2>5 DEF ab, abc
<1>9. Buffers = {DeviceBuffers[i] : i \in 1..5} \cup {HostBuffers[i] : i \in 1..3}
  <2>1. DOMAIN DeviceBuffers = 1..5 /\ DOMAIN HostBuffers = 1..3
    BY DEF DeviceBuffers, HostBuffers
  <2> QED BY <2>1 DEF Buffers, ToSet
<1>10. ToSet(NewShard(k)) = {Call("take", r) : r \in PartsOf(k)}
  <2>1. \A x \in ToSet(NewShard(k)) : \E r \in PartsOf(k) : x = Call("take", r)
    BY <1>1, <1>3, <1>4, <1>5, <1>6, <1>7, <1>8
  <2>2. ASSUME NEW r \in PartsOf(k) PROVE Call("take", r) \in ToSet(NewShard(k))
    <3>1. \/ r = Of(k, "stream") \/ \E i \in 1..5 : r = Of(k, DeviceBuffers[i])
          \/ \E i \in 1..3 : r = Of(k, HostBuffers[i])
          \/ \E level \in 1..Len(Levels) : r = Scratch(k, level)
      BY <1>9, LevelsType DEF PartsOf
    <3> QED BY <1>1, <1>4, <1>5, <1>6, <1>7, <1>8, <3>1
  <2> QED BY <2>1, <2>2
<1> QED BY <1>1, <1>8, <1>10

Count == Len(NewDevice)

\* newDevice goes through the script and then takes the parts of every shard.
LEMMA NewDeviceIs ==
    /\ NewDevice \in Seq(Calls) /\ Count \in Nat /\ Count >= 26
    /\ \A i \in 1..26 : NewDevice[i] = Script[i]
    /\ \A i \in 27..Count : \E r \in Parts : NewDevice[i] = Call("take", r)
    /\ \A r \in Parts : \E i \in 27..Count : NewDevice[i] = Call("take", r)
<1> DEFINE seqs == [i \in 1..Streams |-> NewShard(i - 1)]
           shards == FlattenSeq(seqs)
<1>1. Streams \in Nat \ {0} /\ \A i \in 1..Streams : i - 1 \in Shards
  BY DeviceAssumption DEF Shards
<1>2. seqs \in [1..Streams -> Seq(Calls)] /\ \A i \in 1..Streams : seqs[i] = NewShard(i - 1)
  BY <1>1, ShardTakes
<1>3. NewDevice = Prefix \o shards
  BY DEF NewDevice, Prefix
<1>4. Prefix \in Seq(Calls) /\ Len(Prefix) = 26 /\ \A i \in 1..26 : Prefix[i] = Script[i]
  BY PrefixRuns DEF Runs
<1> HIDE DEF seqs
<1>5. shards \in Seq(Calls) /\ \A x : x \in ToSet(shards) <=> \E m \in 1..Streams : x \in ToSet(seqs[m])
  BY <1>1, <1>2, FlatPlaces
<1>6. \A x : x \in ToSet(shards) <=> \E r \in Parts : x = Call("take", r)
  <2>1. ASSUME NEW x \in ToSet(shards) PROVE \E r \in Parts : x = Call("take", r)
    <3>1. PICK m \in 1..Streams : x \in ToSet(NewShard(m - 1))
      BY <1>2, <1>5
    <3> QED BY <1>1, <3>1, ShardTakes DEF Parts
  <2>2. ASSUME NEW r \in Parts PROVE Call("take", r) \in ToSet(shards)
    <3>1. PICK k \in Shards : r \in PartsOf(k)
      BY DEF Parts
    <3>2. k + 1 \in 1..Streams /\ (k + 1) - 1 = k
      BY <1>1 DEF Shards
    <3>3. Call("take", r) \in ToSet(NewShard(k))
      BY <3>1, ShardTakes
    <3> QED BY <1>2, <1>5, <3>2, <3>3
  <2> QED BY <2>1, <2>2
<1> HIDE DEF shards
<1> DEFINE p == Prefix
           C == Calls
           n == NewDevice
<1>7. p \in Seq(C) /\ shards \in Seq(C) /\ n = p \o shards
  BY <1>3, <1>4, <1>5
<1>8. Len(p) = 26 /\ \A i \in 1..26 : p[i] = Script[i]
  BY <1>4
<1> HIDE DEF p, C, n
<1>9. /\ n \in Seq(C) /\ Len(n) = Len(p) + Len(shards)
      /\ Len(p) \in Nat /\ Len(shards) \in Nat
      /\ \A x \in 1..Len(p) : n[x] = p[x]
      /\ \A x \in 1..Len(shards) : n[Len(p) + x] = shards[x]
  BY ONLY <1>7, Joins
<1> DEFINE c == Len(n)
           b == Len(shards)
<1>10. /\ c = 26 + b /\ b \in Nat
       /\ \A i \in 1..26 : n[i] = Script[i]
       /\ \A x \in 1..b : n[26 + x] = shards[x]
  BY <1>8, <1>9
<1>11. DOMAIN shards = 1..b
  BY <1>5
<1> HIDE DEF c, b
<1>12. \A i \in 27..c : i - 26 \in 1..b /\ 26 + (i - 26) = i
  BY <1>10
<1>13. \A i \in 27..c : \E r \in Parts : n[i] = Call("take", r)
  <2> TAKE i \in 27..c
  <2>1. n[i] = shards[i - 26] /\ i - 26 \in DOMAIN shards
    BY <1>10, <1>11, <1>12
  <2> QED BY <1>6, <2>1 DEF ToSet
<1>14. \A r \in Parts : \E i \in 27..c : n[i] = Call("take", r)
  <2> TAKE r \in Parts
  <2>1. PICK x \in 1..b : shards[x] = Call("take", r)
    BY <1>6, <1>11 DEF ToSet
  <2>2. 26 + x \in 27..c
    BY <1>10
  <2> QED BY <1>10, <2>1, <2>2
<1>15. c \in Nat /\ c >= 26
  BY <1>10
<1> QED BY <1>9, <1>10, <1>13, <1>14, <1>15 DEF c, n, C, Count

\* Resources are told apart by their shard and their name.
LEMMA NamesDiffer ==
    /\ \A a, b : Whole(a) = Whole(b) => a = b
    /\ \A k, j \in Shards : \A a, b : Of(k, a) = Of(j, b) => k = j /\ a = b
    /\ \A a : Whole(a) \notin Parts
    /\ All # Default /\ All \notin Shards /\ Default \notin Shards
<1>1. Streams \in Nat /\ All \notin Shards /\ Default \notin Shards /\ All # Default
  BY DeviceAssumption DEF Shards, All, Default
<1>2. ASSUME NEW a, NEW k \in Shards PROVE Whole(a) \notin PartsOf(k)
  BY <1>1 DEF PartsOf, Whole, Of, Scratch
<1>3. \A a : Whole(a) \notin Parts
  BY <1>2 DEF Parts
<1>4. \A a, b : Whole(a) = Whole(b) => a = b
  BY DEF Whole, Of
<1>5. \A k, j \in Shards : \A a, b : Of(k, a) = Of(j, b) => k = j /\ a = b
  BY DEF Of
<1> QED BY <1>1, <1>3, <1>4, <1>5

\* What each call of newDevice is.
LEMMA CallsAre ==
    ASSUME NEW i \in 1..Count
    PROVE  /\ NewDevice[i].call \in {"ask", "take", "copy", "sync", "drop", "free"}
           /\ NewDevice[i].call = "take" =>
                 NewDevice[i].on \in Parts \/ \E name \in {"driver", "compiler", "program", "context",
                     "module", "bases", "table", "roots", "differences"} :
                         NewDevice[i].on = Whole(name)
           /\ NewDevice[i].call = "take" /\ i < 10 =>
                 NewDevice[i].on \in {Whole("driver"), Whole("compiler"), Whole("program")}
           /\ NewDevice[i].call = "take" => (NewDevice[i].on = Whole("context") <=> i = 10)
           /\ NewDevice[i].call = "take" => (NewDevice[i].on = Whole("program") <=> i = 6)
           /\ NewDevice[i].call = "take" => (NewDevice[i].on = Whole("bases") <=> i = 13)
           /\ NewDevice[i].call = "drop" <=> i = 9
           /\ NewDevice[i].call = "free" <=> i = 19
           /\ NewDevice[i].call = "drop" => /\ NewDevice[i] = Call("drop", Whole("program"))
                                            /\ NewDevice[i].on = Whole("program")
           /\ NewDevice[i].call = "free" => NewDevice[i].on = Whole("bases")
           /\ NewDevice[i].call = "copy" =>
                 /\ i \in {14, 17, 21, 24} /\ NewDevice[i].on \in CardTables
                 /\ NewDevice[i - 1] = Call("take", Whole(NewDevice[i].on))
                 /\ NewDevice[i + 1].call = "sync"
           /\ NewDevice[i].call = "sync" => NewDevice[i].on \in {Default, All}
<1>1. CASE i \in 27..Count
  <2>1. PICK r \in Parts : NewDevice[i] = Call("take", r)
    BY <1>1, NewDeviceIs
  <2>2. NewDevice[i].call = "take" /\ NewDevice[i].on = r
    BY <2>1 DEF Call
  <2>3. r # Whole("context") /\ r # Whole("program") /\ r # Whole("bases")
    BY NamesDiffer
  <2> QED BY <1>1, <2>2, <2>3
<1>2. CASE i \in 1..26
  <2>1. \A j \in 1..26 : NewDevice[j] = Script[j]
    BY NewDeviceIs
  <2>2. \A c, on : Call(c, on).call = c /\ Call(c, on).on = on
    BY DEF Call
  <2> QED BY <1>2, <2>1, <2>2, ScriptIs, NamesDiffer DEF CardTables
<1>3. Count \in Nat
  BY NewDeviceIs
<1> QED BY <1>1, <1>2, <1>3

\* What is taken before the first shard.
LEMMA FirstTakes ==
    \A p \in {<<1, "driver">>, <<3, "compiler">>, <<6, "program">>, <<10, "context">>,
              <<11, "module">>, <<13, "bases">>, <<16, "table">>, <<20, "roots">>,
              <<23, "differences">>} :
        p[1] \in 1..26 /\ NewDevice[p[1]] = Call("take", Whole(p[2]))
<1>1. \A j \in 1..26 : NewDevice[j] = Script[j]
  BY NewDeviceIs
<1> QED BY <1>1, ScriptIs

\* What the first n calls took, and what they gave back.
TakenBy(n) == {NewDevice[i].on : i \in {j \in 1..n : NewDevice[j].call = "take"}}
Gone(n) == {r \in {Whole("program"), Whole("bases")} : n >= IF r = Whole("program") THEN 9 ELSE 19}

\* One call more.
LEMMA TakenNext ==
    ASSUME NEW n \in 0..(Count - 1), NEW c, c = NewDevice[n + 1]
    PROVE  /\ c.call = "take" => TakenBy(n + 1) = TakenBy(n) \cup {c.on}
                                    /\ c.on \notin Gone(n + 1) /\ Gone(n + 1) = Gone(n)
           /\ c.call \in {"drop", "free"} => TakenBy(n + 1) = TakenBy(n)
                                    /\ Gone(n + 1) = Gone(n) \cup {c.on}
                                    /\ c.on \in TakenBy(n) \ Gone(n) /\ c.on # Whole("context")
           /\ c.call \in {"ask", "copy", "sync"} => TakenBy(n + 1) = TakenBy(n) /\ Gone(n + 1) = Gone(n)
<1>1. n + 1 \in 1..Count /\ n \in Nat /\ 1..(n + 1) = (1..n) \cup {n + 1} /\ Count >= 26
  <2>1. Count \in Nat /\ Count >= 26
    BY NewDeviceIs
  <2> QED BY <2>1
<1>2. TakenBy(n + 1) = IF c.call = "take" THEN TakenBy(n) \cup {c.on} ELSE TakenBy(n)
  BY <1>1 DEF TakenBy
<1>3. c.call = "drop" <=> n + 1 = 9
  BY <1>1, CallsAre
<1>4. c.call = "free" <=> n + 1 = 19
  BY <1>1, CallsAre
<1>5. c.call = "drop" => c.on = Whole("program")
  BY <1>1, CallsAre
<1>6. c.call = "free" => c.on = Whole("bases")
  BY <1>1, CallsAre
<1>7. c.call = "take" => /\ c.on = Whole("program") <=> n + 1 = 6
                         /\ c.on = Whole("bases") <=> n + 1 = 13
  BY <1>1, CallsAre
<1>8. Whole("program") # Whole("bases") /\ Whole("program") # Whole("context")
      /\ Whole("bases") # Whole("context")
  BY NamesDiffer
<1>9. Gone(n + 1) = Gone(n) \cup (IF c.call \in {"drop", "free"} THEN {c.on} ELSE {})
  BY <1>1, <1>3, <1>4, <1>5, <1>6, <1>8 DEF Gone
<1>10. c.call = "take" => c.on \notin Gone(n + 1)
  BY <1>1, <1>7, <1>8 DEF Gone
<1>11. c.call \in {"drop", "free"} => c.on \in TakenBy(n) \ Gone(n) /\ c.on # Whole("context")
  <2>1. CASE c.call = "drop"
    <3>1. n = 8 /\ c.on = Whole("program") /\ 6 \in 1..n
      BY <1>1, <1>3, <1>5, <2>1
    <3>2. NewDevice[6].call = "take" /\ NewDevice[6].on = Whole("program")
      BY FirstTakes DEF Call
    <3> QED BY <1>8, <3>1, <3>2 DEF TakenBy, Gone
  <2>2. CASE c.call = "free"
    <3>1. n = 18 /\ c.on = Whole("bases") /\ 13 \in 1..n
      BY <1>1, <1>4, <1>6, <2>2
    <3>2. NewDevice[13].call = "take" /\ NewDevice[13].on = Whole("bases")
      BY FirstTakes DEF Call
    <3> QED BY <1>8, <3>1, <3>2 DEF TakenBy, Gone
  <2> QED BY <2>1, <2>2
<1> QED BY <1>2, <1>9, <1>10, <1>11

\* The order in which things are taken: the context before all that is on the card.
LEMMA TakenAre ==
    ASSUME NEW n \in 0..Count
    PROVE  /\ TakenBy(n) \subseteq Wholes \cup Parts
           /\ Whole("context") \in TakenBy(n) <=> n >= 10
           /\ Whole("program") \in TakenBy(n) <=> n >= 6
           /\ n < 10 => TakenBy(n) \subseteq {Whole("driver"), Whole("compiler"), Whole("program")}
           /\ n = Count => TakenBy(n) = Wholes \cup Parts
<1>1. Count \in Nat /\ Count >= 26 /\ 1..n \subseteq 1..Count /\ n \in Nat
  BY NewDeviceIs
<1>2. TakenBy(n) \subseteq Wholes \cup Parts
  <2> SUFFICES ASSUME NEW i \in 1..n, NewDevice[i].call = "take"
               PROVE  NewDevice[i].on \in Wholes \cup Parts
    BY DEF TakenBy
  <2>1. NewDevice[i].on \in Parts \/ \E name \in {"driver", "compiler", "program", "context",
                "module", "bases", "table", "roots", "differences"} : NewDevice[i].on = Whole(name)
    BY <1>1, CallsAre
  <2> QED BY <2>1 DEF Wholes, CardTables
<1>3. Whole("context") \in TakenBy(n) <=> n >= 10
  <2>1. NewDevice[10].call = "take" /\ NewDevice[10].on = Whole("context")
    BY FirstTakes DEF Call
  <2>2. n >= 10 => 10 \in 1..n
    BY <1>1
  <2>3. \A i \in 1..n : NewDevice[i].call = "take" => (NewDevice[i].on = Whole("context") <=> i = 10)
    BY <1>1, CallsAre
  <2> QED BY <1>1, <2>1, <2>2, <2>3 DEF TakenBy
<1>4. Whole("program") \in TakenBy(n) <=> n >= 6
  <2>1. NewDevice[6].call = "take" /\ NewDevice[6].on = Whole("program")
    BY FirstTakes DEF Call
  <2>2. n >= 6 => 6 \in 1..n
    BY <1>1
  <2>3. \A i \in 1..n : NewDevice[i].call = "take" => (NewDevice[i].on = Whole("program") <=> i = 6)
    BY <1>1, CallsAre
  <2> QED BY <1>1, <2>1, <2>2, <2>3 DEF TakenBy
<1>5. n < 10 => TakenBy(n) \subseteq {Whole("driver"), Whole("compiler"), Whole("program")}
  <2>1. \A i \in 1..n : NewDevice[i].call = "take" /\ i < 10 =>
            NewDevice[i].on \in {Whole("driver"), Whole("compiler"), Whole("program")}
    BY <1>1, CallsAre
  <2>2. n < 10 => \A i \in 1..n : i < 10
    BY <1>1
  <2> QED BY <2>1, <2>2 DEF TakenBy
<1>6. ASSUME n = Count PROVE Wholes \cup Parts \subseteq TakenBy(n)
  <2>1. /\ NewDevice[1] = Call("take", Whole("driver")) /\ NewDevice[3] = Call("take", Whole("compiler"))
        /\ NewDevice[6] = Call("take", Whole("program")) /\ NewDevice[10] = Call("take", Whole("context"))
        /\ NewDevice[11] = Call("take", Whole("module")) /\ NewDevice[13] = Call("take", Whole("bases"))
        /\ NewDevice[16] = Call("take", Whole("table")) /\ NewDevice[20] = Call("take", Whole("roots"))
        /\ NewDevice[23] = Call("take", Whole("differences"))
    BY FirstTakes
  <2>2. \A i \in 1..n : \A r : NewDevice[i] = Call("take", r) => r \in TakenBy(n)
    BY DEF TakenBy, Call
  <2>3. \A i \in 1..26 : i \in 1..n
    BY <1>1, <1>6
  <2>4. Wholes \subseteq TakenBy(n)
    BY <2>1, <2>2, <2>3 DEF Wholes, CardTables
  <2>5. \A i \in 27..Count : i \in 1..n
    BY <1>1, <1>6
  <2>6. Parts \subseteq TakenBy(n)
    BY <2>2, <2>5, NewDeviceIs
  <2> QED BY <2>4, <2>6
<1> QED BY <1>2, <1>3, <1>4, <1>5, <1>6

-----------------------------------------------------------------------------
(* The calls of close.                                                      *)

\* What is given back call by call: the rest goes with the context.
KeptOf(k) == {Of(k, "stream")} \cup {Of(k, name) : name \in ToSet(HostBuffers)}
Kept == UNION {KeptOf(k) : k \in Shards}
Libraries == {Whole("compiler"), Whole("driver")}
OfContext == {Whole("module"), Whole("context")}

DropsOf(resources) == {Call("drop", r) : r \in resources}

\* Each of some resources that is known is given back once.
LEMMA DropsEach ==
    ASSUME NEW n \in Nat \ {0}, NEW s \in Seq(Ons), Len(s) = n, Once(s)
    PROVE  /\ Drops(s) \in Seq(Calls) /\ Once(Drops(s))
           /\ ToSet(Drops(s)) = DropsOf(ToSet(s) \cap known)
<1> DEFINE one(i) == IF s[i] \in known THEN <<Call("drop", s[i])>> ELSE <<>>
           seqs == [i \in 1..n |-> one(i)]
           flat == FlattenSeq(seqs)
<1>1. DOMAIN s = 1..n /\ \A i \in 1..n : s[i] \in Ons
  OBVIOUS
<1>2. flat = Drops(s)
  BY <1>1 DEF Drops
<1>3. ASSUME NEW i \in 1..n
      PROVE  /\ one(i) \in Seq(Calls) /\ Once(one(i))
             /\ ToSet(one(i)) = IF s[i] \in known THEN {Call("drop", s[i])} ELSE {}
  <2>1. Call("drop", s[i]) \in Calls
    BY <1>1 DEF Call, Calls, Asking
  <2> DEFINE c == Call("drop", s[i])
  <2>2. c \in Calls /\ one(i) = IF s[i] \in known THEN <<c>> ELSE <<>>
    BY <2>1
  <2> HIDE DEF c
  <2>3. /\ <<c>> \in Seq(Calls) /\ Once(<<c>>) /\ ToSet(<<c>>) = {c}
        /\ <<>> \in Seq(Calls) /\ Once(<<>>) /\ ToSet(<<>>) = {}
    BY <2>2 DEF Once, ToSet
  <2> QED BY <2>2, <2>3 DEF c
<1>4. seqs \in [1..n -> Seq(Calls)] /\ \A i \in 1..n : seqs[i] = one(i)
  BY <1>3
<1> HIDE DEF one, seqs
<1>5. flat \in Seq(Calls) /\ \A x : x \in ToSet(flat) <=> \E i \in 1..n : x \in ToSet(seqs[i])
  <2>1. n \in Nat \ {0} /\ seqs \in [1..n -> Seq(Calls)]
    BY <1>4
  <2> QED BY ONLY <2>1, FlatPlaces
<1>6. Once(flat)
  <2>1. \A i \in 1..n : Once(seqs[i])
    BY <1>3, <1>4
  <2>2. ASSUME NEW i \in 1..n, NEW k \in 1..n, NEW x \in ToSet(seqs[i]), x \in ToSet(seqs[k])
        PROVE  i = k
    <3>1. x = Call("drop", s[i]) /\ x = Call("drop", s[k])
      BY <1>3, <1>4, <2>2
    <3>2. s[i] = s[k]
      BY <3>1 DEF Call
    <3> QED BY <1>1, <3>2 DEF Once
  <2> QED BY <1>4, <2>1, <2>2, FlatOnce
<1>7. ToSet(flat) = DropsOf(ToSet(s) \cap known)
  <2>3. \A i \in 1..n : \A x :
            x \in ToSet(seqs[i]) <=> s[i] \in known /\ x = Call("drop", s[i])
    BY <1>3, <1>4
  <2>1. \A x : x \in ToSet(flat) <=> \E i \in 1..n : s[i] \in known /\ x = Call("drop", s[i])
    BY <1>5, <2>3
  <2>2. \A r : r \in ToSet(s) <=> \E i \in 1..n : r = s[i]
    BY <1>1 DEF ToSet
  <2> HIDE DEF flat
  <2> QED BY <2>1, <2>2 DEF DropsOf
<1> QED BY <1>2, <1>5, <1>6, <1>7

\* Each shard gives back its stream and its pinned buffers, as far as they are known.
LEMMA ShardDrops ==
    ASSUME NEW k \in Shards
    PROVE  /\ Drops(OfShard(k)) \in Seq(Calls) /\ Once(Drops(OfShard(k)))
           /\ ToSet(Drops(OfShard(k))) = DropsOf(KeptOf(k) \cap known)
<1> DEFINE s == OfShard(k)
           a == <<Of(k, "stream")>>
           b == [i \in 1..3 |-> Of(k, HostBuffers[i])]
<1>1. DOMAIN HostBuffers = 1..3 /\ HostBuffers[1] = "host" /\ HostBuffers[2] = "hostInput"
      /\ HostBuffers[3] = "hostIndices"
  BY DEF HostBuffers
<1>2. s = a \o b
  BY <1>1 DEF OfShard
<1>3. KeptOf(k) \subseteq Ons
  <2>1. ToSet(HostBuffers) \subseteq Buffers
    BY DEF Buffers
  <2> QED BY <2>1 DEF KeptOf, Ons, Parts, PartsOf
<1>4. a \in Seq(Ons) /\ b \in Seq(Ons) /\ Len(a) = 1 /\ Len(b) = 3
  <2>1. \A i \in 1..3 : HostBuffers[i] \in ToSet(HostBuffers)
    BY <1>1 DEF ToSet
  <2>2. Of(k, "stream") \in Ons /\ \A i \in 1..3 : Of(k, HostBuffers[i]) \in Ons
    BY <1>3, <2>1 DEF KeptOf
  <2> QED BY <2>2
<1>5. ToSet(a) = {Of(k, "stream")} /\ ToSet(b) = {Of(k, name) : name \in ToSet(HostBuffers)}
  BY <1>1, <1>4 DEF ToSet
<1>6. Once(a) /\ Once(b) /\ ToSet(a) \cap ToSet(b) = {}
  <2>1. Once(a)
    BY DEF Once
  <2>2. Once(b)
    BY <1>1, NamesDiffer DEF Once
  <2>3. \A name \in ToSet(HostBuffers) : name # "stream"
    BY <1>1 DEF ToSet
  <2>4. ToSet(a) \cap ToSet(b) = {}
    BY <1>5, <2>3, NamesDiffer
  <2> QED BY <2>1, <2>2, <2>4
<1> HIDE DEF a, b
<1>7. Len(a \o b) = 4
  <2>1. Len(a \o b) = Len(a) + Len(b)
    BY <1>4, JoinOnce
  <2> QED BY <1>4, <2>1
<1>8. s \in Seq(Ons) /\ ToSet(s) = KeptOf(k) /\ Once(s)
  BY <1>2, <1>4, <1>5, <1>6, JoinOnce DEF KeptOf
<1>10. Len(s) = 4
  BY <1>2, <1>7
<1> HIDE DEF s
<1>9. /\ Drops(s) \in Seq(Calls) /\ Once(Drops(s))
      /\ ToSet(Drops(s)) = DropsOf(ToSet(s) \cap known)
  BY <1>8, <1>10, DropsEach
<1> QED BY <1>8, <1>9 DEF s

\* All shards together.
LEMMA AllShardsDrop ==
    /\ CloseShards \in Seq(Calls) /\ Once(CloseShards)
    /\ ToSet(CloseShards) = DropsOf(Kept \cap known)
<1> DEFINE seqs == [i \in 1..Streams |-> Drops(OfShard(i - 1))]
           flat == FlattenSeq(seqs)
<1>1. Streams \in Nat \ {0} /\ \A i \in 1..Streams : i - 1 \in Shards
  BY DeviceAssumption DEF Shards
<1>2. /\ seqs \in [1..Streams -> Seq(Calls)]
      /\ \A i \in 1..Streams : /\ Once(seqs[i])
                               /\ ToSet(seqs[i]) = DropsOf(KeptOf(i - 1) \cap known)
  BY <1>1, ShardDrops
<1>3. CloseShards = flat
  BY DEF CloseShards
<1> HIDE DEF seqs
<1>4. flat \in Seq(Calls) /\ \A x : x \in ToSet(flat) <=> \E i \in 1..Streams : x \in ToSet(seqs[i])
  BY <1>1, <1>2, FlatPlaces
<1>5. ASSUME NEW i \in 1..Streams, NEW k \in 1..Streams, NEW x \in ToSet(seqs[i]),
             x \in ToSet(seqs[k])
      PROVE  i = k
  <2>1. PICK r \in KeptOf(i - 1), q \in KeptOf(k - 1) : x = Call("drop", r) /\ x = Call("drop", q)
    BY <1>2, <1>5 DEF DropsOf
  <2>2. r = q
    BY <2>1 DEF Call
  <2>3. \A j : \A z \in KeptOf(j) : z[1] = j
    BY DEF KeptOf, Of
  <2>4. i - 1 = k - 1
    BY <2>2, <2>3
  <2> QED BY <2>4
<1>6. Once(flat)
  BY <1>1, <1>2, <1>5, FlatOnce
<1>7. ToSet(flat) = DropsOf(Kept \cap known)
  <2>1. ASSUME NEW x \in ToSet(flat) PROVE x \in DropsOf(Kept \cap known)
    <3>1. PICK i \in 1..Streams : x \in DropsOf(KeptOf(i - 1) \cap known)
      BY <1>2, <1>4
    <3> QED BY <1>1, <3>1 DEF DropsOf, Kept
  <2>2. ASSUME NEW x \in DropsOf(Kept \cap known) PROVE x \in ToSet(flat)
    <3>1. PICK k \in Shards : x \in DropsOf(KeptOf(k) \cap known)
      BY DEF DropsOf, Kept
    <3>2. k + 1 \in 1..Streams /\ (k + 1) - 1 = k
      BY <1>1 DEF Shards
    <3> QED BY <1>2, <1>4, <3>1, <3>2
  <2> QED BY <2>1, <2>2
<1> QED BY <1>3, <1>4, <1>6, <1>7

\* The pairs that close gives back in the end.
LEMMA PairDrops ==
    /\ Destroy \in Seq(Calls) /\ Once(Destroy) /\ ToSet(Destroy) = DropsOf(OfContext \cap known)
    /\ CloseLibraries \in Seq(Calls) /\ Once(CloseLibraries)
    /\ ToSet(CloseLibraries) = DropsOf(Libraries \cap known)
<1>1. ASSUME NEW a \in Ons, NEW b \in Ons, a # b
      PROVE  /\ Drops(<<a, b>>) \in Seq(Calls) /\ Once(Drops(<<a, b>>))
             /\ ToSet(Drops(<<a, b>>)) = DropsOf({a, b} \cap known)
  <2> DEFINE s == <<a, b>>
  <2>1. s \in Seq(Ons) /\ Len(s) = 2 /\ ToSet(s) = {a, b}
    BY DEF ToSet
  <2>2. Once(s)
    BY <1>1 DEF Once
  <2> HIDE DEF s
  <2>3. Drops(s) \in Seq(Calls) /\ Once(Drops(s)) /\ ToSet(Drops(s)) = DropsOf(ToSet(s) \cap known)
    BY <2>1, <2>2, DropsEach
  <2> QED BY <2>1, <2>3 DEF s
<1>2. Whole("module") \in Ons /\ Whole("context") \in Ons /\ Whole("compiler") \in Ons
      /\ Whole("driver") \in Ons
  BY DEF Ons, Wholes
<1>3. Whole("module") # Whole("context") /\ Whole("compiler") # Whole("driver")
  BY NamesDiffer
<1>4. Destroy = Drops(<<Whole("module"), Whole("context")>>)
  BY DEF Destroy
<1>5. CloseLibraries = Drops(<<Whole("compiler"), Whole("driver")>>)
  BY DEF CloseLibraries
<1> QED BY <1>1, <1>2, <1>3, <1>4, <1>5 DEF OfContext, Libraries

AtOnce == Call("sync", All)

\* close waits for the card, if there is one, and gives back what is known, each once.
LEMMA CloseCalls ==
    /\ CloseDevice \in Seq(Calls) /\ Once(CloseDevice)
    /\ Whole("context") \notin known => ToSet(CloseDevice) = DropsOf(Libraries \cap known)
    /\ Whole("context") \in known =>
          /\ Len(CloseDevice) \in Nat \ {0} /\ CloseDevice[1] = AtOnce
          /\ ToSet(CloseDevice)
                = {AtOnce} \cup DropsOf((Kept \cup OfContext \cup Libraries) \cap known)
<1> DEFINE a == Sync(All)
           b == CloseShards
           c == Destroy
           d == CloseLibraries
           abc == (a \o b) \o c
<1>1. CloseDevice = IF Whole("context") \in known THEN abc \o d ELSE <<>> \o d
  BY DEF CloseDevice
<1>2. /\ a \in Seq(Calls) /\ Len(a) = 1 /\ a[1] = AtOnce /\ ToSet(a) = {AtOnce} /\ Once(a)
      /\ <<>> \in Seq(Calls) /\ ToSet(<<>>) = {} /\ Once(<<>>)
  <2>1. AtOnce \in Calls
    BY DEF AtOnce, Call, Calls, Asking, Ons
  <2>2. a = <<AtOnce>>
    BY DEF Sync, AtOnce
  <2> QED BY <2>1, <2>2 DEF ToSet, Once
<1>3. b \in Seq(Calls) /\ Once(b) /\ ToSet(b) = DropsOf(Kept \cap known)
  BY AllShardsDrop
<1>4. /\ c \in Seq(Calls) /\ Once(c) /\ ToSet(c) = DropsOf(OfContext \cap known)
      /\ d \in Seq(Calls) /\ Once(d) /\ ToSet(d) = DropsOf(Libraries \cap known)
  BY PairDrops
<1>5. /\ ToSet(a) \cap ToSet(b) = {}
      /\ (ToSet(a) \cup ToSet(b)) \cap ToSet(c) = {}
      /\ ((ToSet(a) \cup ToSet(b)) \cup ToSet(c)) \cap ToSet(d) = {}
  <2>1. \A r : AtOnce # Call("drop", r)
    BY DEF AtOnce, Call
  <2>2. \A r, q : Call("drop", r) = Call("drop", q) => r = q
    BY DEF Call
  <2>3. Kept \cap OfContext = {} /\ Kept \cap Libraries = {}
    <3>1. ToSet(HostBuffers) \subseteq Buffers
      BY DEF Buffers
    <3>2. Kept \subseteq Parts
      BY <3>1 DEF Kept, KeptOf, Parts, PartsOf
    <3> QED BY <3>2, NamesDiffer DEF OfContext, Libraries
  <2>4. OfContext \cap Libraries = {}
    BY NamesDiffer DEF OfContext, Libraries
  <2> QED BY <1>2, <1>3, <1>4, <2>1, <2>2, <2>3, <2>4 DEF DropsOf
<1> HIDE DEF a, b, c, d
<1>6. /\ a \o b \in Seq(Calls) /\ Once(a \o b) /\ ToSet(a \o b) = ToSet(a) \cup ToSet(b)
      /\ Len(a \o b) \in Nat \ {0} /\ (a \o b)[1] = AtOnce
  <2>1. Disjoint(a, b) /\ Len(a) \in Nat \ {0}
    BY <1>2, <1>5 DEF Disjoint
  <2> QED BY <1>2, <1>3, <2>1, JoinDisjoint
<1> DEFINE ab == a \o b
<1>7. ab \in Seq(Calls) /\ Once(ab) /\ ToSet(ab) = ToSet(a) \cup ToSet(b)
  BY <1>6
<1>8. abc = ab \o c /\ Len(ab) \in Nat \ {0} /\ ab[1] = AtOnce
  BY <1>6
<1> HIDE DEF ab, abc
<1>10. /\ ab \o c \in Seq(Calls) /\ Once(ab \o c) /\ ToSet(ab \o c) = ToSet(ab) \cup ToSet(c)
       /\ Len(ab \o c) \in Nat \ {0} /\ (ab \o c)[1] = AtOnce
  <2>1. Disjoint(ab, c)
    BY <1>5, <1>7 DEF Disjoint
  <2> QED BY <1>4, <1>7, <1>8, <2>1, JoinDisjoint
<1>11. /\ abc \in Seq(Calls) /\ Once(abc) /\ ToSet(abc) = ToSet(ab) \cup ToSet(c)
       /\ Len(abc) \in Nat \ {0} /\ abc[1] = AtOnce
  BY <1>8, <1>10
<1>13. /\ abc \o d \in Seq(Calls) /\ Once(abc \o d) /\ ToSet(abc \o d) = ToSet(abc) \cup ToSet(d)
       /\ Len(abc \o d) \in Nat \ {0} /\ (abc \o d)[1] = AtOnce
  <2>1. Disjoint(abc, d)
    BY <1>5, <1>7, <1>11 DEF Disjoint
  <2>2. d \in Seq(Calls) /\ Once(d)
    BY <1>4
  <2> QED BY <1>11, <2>1, <2>2, JoinDisjoint
<1>15. <<>> \o d \in Seq(Calls) /\ Once(<<>> \o d) /\ ToSet(<<>> \o d) = ToSet(d)
  BY <1>2, <1>4, JoinOnce
<1>16. CASE Whole("context") \in known
  <2>1. CloseDevice = abc \o d
    BY <1>1, <1>16
  <2>2. ToSet(abc \o d) = {AtOnce} \cup DropsOf((Kept \cup OfContext \cup Libraries) \cap known)
    BY <1>2, <1>3, <1>4, <1>7, <1>11, <1>13 DEF DropsOf
  <2> QED BY <1>13, <1>16, <2>1, <2>2
<1>17. CASE Whole("context") \notin known
  <2>1. CloseDevice = <<>> \o d
    BY <1>1, <1>17
  <2> QED BY <1>4, <1>15, <1>17, <2>1
<1> QED BY <1>16, <1>17

-----------------------------------------------------------------------------
(* The inductive invariant.                                                 *)

Everything == Wholes \cup Parts
Passing == {Whole("program"), Whole("bases")}
Lasting == Everything \ Passing

\* The steps of an open.
OpenSteps ==
    [call : {"fill", "sync", "collect"}, on : Shards]
        \cup [call : {"queue"}, on : Shards \X Operations]

TypeInv ==
    /\ phase \in {"starting", "opening", "closing"}
    /\ queues = [k \in Shards \cup {Default} |-> queues[k]]
    /\ \A k \in Shards : queues[k] \in Seq(Operations)

\* newDevice has made n of its calls, and the card may have the last of them to do.
Started(n) ==
    /\ next = SubSeq(NewDevice, n + 1, Count)
    /\ known = TakenBy(n) /\ held = TakenBy(n) \ Gone(n)
    /\ \A k \in Shards : queues[k] = <<>>
    /\ queues[Default] # <<>> => n > 0 /\ NewDevice[n].call = "copy"

StartInv == phase = "starting" => \E n \in 0..Count : Started(n)

OpenInv ==
    phase = "opening" =>
        /\ next \in Seq(OpenSteps)
        /\ known = Everything /\ held = Lasting
        /\ queues[Default] = <<>>

\* The calls s give back each of the resources h, one by one or with the context.
GiveBack(s, h) ==
    /\ s \in Seq(Calls) /\ Once(s)
    /\ \A c \in ToSet(s) : c = AtOnce \/ \E r \in h : c = Call("drop", r) /\ ~OnCard(r)
    /\ \A r \in h : \/ Call("drop", r) \in ToSet(s)
                    \/ OnCard(r) /\ Call("drop", Whole("context")) \in ToSet(s)

CloseInv ==
    phase = "closing" =>
        /\ GiveBack(next, held)
        /\ \/ \A k \in Shards \cup {Default} : queues[k] = <<>>
           \/ next # <<>> /\ Head(next) = AtOnce

\* What is queued has what it works on.
Backed ==
    /\ \A k \in Shards : queues[k] # <<>> => Lasting \subseteq held
    /\ queues[Default] # <<>> =>
          \E name \in CardTables : queues[Default] = <<name>> /\ Whole(name) \in held

IInv == TypeInv /\ StartInv /\ OpenInv /\ CloseInv /\ Backed

\* What goes with the context and what has to be given back call by call.
LEMMA Sorted ==
    /\ \A r \in Everything : OnCard(r) \/ r \in Kept \cup OfContext \cup Libraries \cup {Whole("program")}
    /\ \A r \in Kept \cup OfContext \cup Libraries \cup {Whole("program")} :
          r \in Everything /\ ~OnCard(r) /\ r # Whole("bases")
    /\ Whole("program") \notin Kept \cup OfContext \cup Libraries
    /\ OnCard(Whole("bases")) /\ Whole("context") \in OfContext
<1>1. /\ ToSet(DeviceBuffers) = {"vector", "q", "contributions", "indices", "out"}
      /\ ToSet(HostBuffers) = {"host", "hostInput", "hostIndices"}
  <2>1. /\ DOMAIN DeviceBuffers = 1..5 /\ DeviceBuffers[1] = "vector" /\ DeviceBuffers[2] = "q"
        /\ DeviceBuffers[3] = "contributions" /\ DeviceBuffers[4] = "indices"
        /\ DeviceBuffers[5] = "out"
    BY DEF DeviceBuffers
  <2>2. /\ DOMAIN HostBuffers = 1..3 /\ HostBuffers[1] = "host" /\ HostBuffers[2] = "hostInput"
        /\ HostBuffers[3] = "hostIndices"
    BY DEF HostBuffers
  <2> QED BY <2>1, <2>2 DEF ToSet
<1> DEFINE card == {"vector", "q", "contributions", "indices", "out", "bases", "table", "roots",
                    "differences", "scratch"}
<1>2. \A r : OnCard(r) <=> r[2] \in card
  BY <1>1 DEF OnCard, CardTables
<1>3. /\ \A k, a : Of(k, a)[2] = a
      /\ \A k, level : Scratch(k, level)[2] = "scratch"
      /\ \A a : Whole(a)[2] = a
  BY DEF Whole, Of, Scratch
<1> HIDE DEF card
<1>4. ASSUME NEW r \in Parts PROVE OnCard(r) \/ r \in Kept
  <2>1. PICK k \in Shards : r \in PartsOf(k)
    BY DEF Parts
  <2>2. CASE r = Of(k, "stream")
    BY <2>2 DEF Kept, KeptOf
  <2>3. CASE \E name \in ToSet(HostBuffers) : r = Of(k, name)
    BY <2>3 DEF Kept, KeptOf
  <2>4. CASE \E name \in ToSet(DeviceBuffers) : r = Of(k, name)
    BY <1>1, <1>2, <1>3, <2>4 DEF card
  <2>5. CASE \E level \in DOMAIN Levels : r = Scratch(k, level)
    BY <1>2, <1>3, <2>5 DEF card
  <2> QED BY <2>1, <2>2, <2>3, <2>4, <2>5 DEF PartsOf, Buffers
<1>5. ASSUME NEW r \in Wholes
      PROVE  OnCard(r) \/ r \in OfContext \cup Libraries \cup {Whole("program")}
  <2>1. PICK name \in {"driver", "compiler", "program", "context", "module"} \cup CardTables :
            r = Whole(name)
    BY DEF Wholes
  <2>2. CASE name \in CardTables
    BY <1>2, <1>3, <2>1, <2>2 DEF card, CardTables
  <2> QED BY <2>1, <2>2 DEF OfContext, Libraries
<1>6. ASSUME NEW r \in Kept PROVE r \in Everything /\ ~OnCard(r) /\ r # Whole("bases")
  <2>1. PICK k \in Shards, name \in {"stream", "host", "hostInput", "hostIndices"} : r = Of(k, name)
    BY <1>1 DEF Kept, KeptOf
  <2>2. ~OnCard(r)
    BY <1>2, <1>3, <2>1 DEF card
  <2>3. r \in Parts
    BY <1>1, <2>1 DEF Parts, PartsOf, Buffers
  <2> QED BY <2>2, <2>3, NamesDiffer DEF Everything
<1>7. ASSUME NEW r \in OfContext \cup Libraries \cup {Whole("program")}
      PROVE  r \in Everything /\ ~OnCard(r) /\ r # Whole("bases")
  <2>1. PICK name \in {"driver", "compiler", "program", "context", "module"} : r = Whole(name)
    BY <1>7 DEF OfContext, Libraries
  <2>2. ~OnCard(r)
    BY <1>2, <1>3, <2>1 DEF card
  <2> QED BY <2>1, <2>2, NamesDiffer DEF Everything, Wholes
<1>8. Whole("program") \notin Kept \cup OfContext \cup Libraries
  <2>1. Whole("program") \notin Kept
    BY <1>1, NamesDiffer DEF Kept, KeptOf, Parts, PartsOf, Buffers
  <2> QED BY <2>1, NamesDiffer DEF OfContext, Libraries
<1>9. OnCard(Whole("bases"))
  BY <1>2, <1>3 DEF card
<1> QED BY <1>4, <1>5, <1>6, <1>7, <1>8, <1>9 DEF Everything, OfContext

\* From wherever it gives up, the device gives back what it holds: what is known is
\* held, but for a program and the bases.
LEMMA ClosingGivesBack ==
    ASSUME held \subseteq known, known \subseteq Everything, known \ held \subseteq Passing,
           Whole("context") \notin known =>
               known \subseteq {Whole("driver"), Whole("compiler"), Whole("program")},
           Whole("context") \in known => Whole("program") \notin held,
           NEW d, d = IF Whole("program") \in held THEN <<Call("drop", Whole("program"))>> ELSE <<>>
    PROVE  /\ GiveBack(d \o CloseDevice, held)
           /\ Whole("context") \in known =>
                 d \o CloseDevice # <<>> /\ Head(d \o CloseDevice) = AtOnce
<1> DEFINE program == Whole("program")
           s == CloseDevice
           given == IF program \in held THEN {program} ELSE {}
<1>1. s \in Seq(Calls) /\ Once(s)
  BY CloseCalls
<1>2. d \in Seq(Calls) /\ Once(d) /\ ToSet(d) = DropsOf(given)
  <2>1. Call("drop", program) \in Calls
    BY DEF Call, Calls, Asking, Ons, Wholes
  <2> DEFINE c == Call("drop", program)
  <2>2. c \in Calls /\ d = IF program \in held THEN <<c>> ELSE <<>>
    BY <2>1
  <2> HIDE DEF c
  <2>3. /\ <<c>> \in Seq(Calls) /\ Once(<<c>>) /\ ToSet(<<c>>) = {c}
        /\ <<>> \in Seq(Calls) /\ Once(<<>>) /\ ToSet(<<>>) = {}
    BY <2>2 DEF Once, ToSet
  <2> QED BY <2>2, <2>3 DEF c, DropsOf
<1>3. \A r, q : Call("drop", r) = Call("drop", q) => r = q
  BY DEF Call
<1>4. \A r : AtOnce # Call("drop", r)
  BY DEF AtOnce, Call
<1> DEFINE all == Kept \cup OfContext \cup Libraries
           mine == IF Whole("context") \in known THEN all \cap known ELSE Libraries \cap known
<1>5. /\ DropsOf(mine) \subseteq ToSet(s)
      /\ ToSet(s) \subseteq {AtOnce} \cup DropsOf(mine)
  BY CloseCalls
<1>6. program \notin mine
  BY Sorted
<1>7. ToSet(d) \cap ToSet(s) = {}
  BY <1>2, <1>3, <1>4, <1>5, <1>6 DEF DropsOf
<1>8. /\ d \o s \in Seq(Calls) /\ Once(d \o s) /\ ToSet(d \o s) = ToSet(d) \cup ToSet(s)
  <2> HIDE DEF s
  <2>1. d \in Seq(Calls) /\ s \in Seq(Calls) /\ Once(d) /\ Once(s) /\ Disjoint(d, s)
    BY <1>1, <1>2, <1>7 DEF Disjoint
  <2> QED BY ONLY <2>1, JoinDisjoint
<1>9. mine \cup given \subseteq held
  <2>1. mine \subseteq known
    OBVIOUS
  <2>2. \A r \in mine : r # Whole("bases") /\ r # program
    BY <1>6, Sorted
  <2> QED BY <2>1, <2>2 DEF Passing
<1>10. \A r \in mine \cup given : ~OnCard(r)
  BY Sorted
<1>11. ASSUME NEW r \in held
       PROVE  r \in mine \cup given \/ (OnCard(r) /\ Whole("context") \in mine)
  <2>1. r \in known /\ r \in Everything
    OBVIOUS
  <2>2. CASE Whole("context") \in known
    <3>1. r # program
      BY <2>2
    <3> QED BY <2>1, <2>2, <3>1, Sorted
  <2>3. CASE Whole("context") \notin known
    BY <2>1, <2>3 DEF Libraries
  <2> QED BY <2>2, <2>3
<1> HIDE DEF s, mine, given
<1>12. GiveBack(d \o s, held)
  <2>1. ASSUME NEW c \in ToSet(d \o s), c # AtOnce PROVE \E r \in held : c = Call("drop", r) /\ ~OnCard(r)
    <3>1. PICK r \in mine \cup given : c = Call("drop", r)
      BY <1>2, <1>5, <1>8, <2>1 DEF DropsOf
    <3> QED BY <1>9, <1>10, <3>1
  <2>2. \A r \in mine \cup given : Call("drop", r) \in ToSet(d \o s)
    BY <1>2, <1>5, <1>8 DEF DropsOf
  <2> QED BY <1>8, <1>11, <2>1, <2>2 DEF GiveBack
<1>13. ASSUME Whole("context") \in known PROVE d \o s # <<>> /\ Head(d \o s) = AtOnce
  <2>1. d = <<>> /\ Len(s) \in Nat \ {0} /\ s[1] = AtOnce
    BY <1>13, CloseCalls DEF s
  <2> DEFINE joined == d \o s
  <2>2. joined = d \o s
    OBVIOUS
  <2> HIDE DEF joined
  <2>3. /\ joined \in Seq(Calls) /\ Len(joined) = Len(d) + Len(s)
        /\ \A x \in 1..Len(s) : joined[Len(d) + x] = s[x]
    BY <1>1, <1>2, <2>2, Joins DEF s
  <2>4. Len(d) = 0
    BY <2>1
  <2>5. joined # <<>> /\ joined[1] = AtOnce
    BY <2>1, <2>3, <2>4
  <2>6. Head(joined) = joined[1]
    BY <2>3, <2>5
  <2> QED BY <2>5, <2>6 DEF joined
<1> QED BY <1>12, <1>13 DEF s

-----------------------------------------------------------------------------
(* The calls of an open.                                                    *)

\* A shard is never given more jobs than its buffers have places for (open).
LEMMA ShardFits ==
    ASSUME NEW jobs \in Batches, NEW k \in Shards
    PROVE  Cardinality(Selection(k, jobs)) \in 0..PerStream
<1> DEFINE len == Len(jobs)
<1>1. Streams \in Nat \ {0} /\ Batch \in Nat \ {0} /\ len \in 1..Batch /\ k \in 0..(Streams - 1)
  BY DeviceAssumption DEF Shards
<1>2. PerStream \in Nat /\ PerStream * Streams > Batch - 1
  <2> DEFINE p == (Batch + Streams - 1) \div Streams
  <2>1. p \in Int /\ Streams * p <= Batch + Streams - 1 /\ Batch + Streams - 1 < Streams * p + Streams
    BY <1>1
  <2>2. p >= 0
    BY <1>1
  <2>3. PerStream = p
    BY DEF PerStream, CeilDiv
  <2> HIDE DEF p
  <2> QED BY <1>1, <2>1, <2>2, <2>3
<1> HIDE DEF len
<1>3. ASSUME NEW offset \in Selection(k, jobs) PROVE offset \in 0..(PerStream - 1)
  <2>1. offset \in Nat /\ k + offset * Streams + 1 <= len
    BY DEF Selection, Selected, len
  <2>2. offset * Streams \in Int /\ offset * Streams <= Batch - 1
    BY <1>1, <2>1
  <2>3. offset * Streams < PerStream * Streams
    BY <1>1, <1>2, <2>2
  <2>4. ~(offset >= PerStream)
    <3> SUFFICES ASSUME offset >= PerStream PROVE FALSE
      OBVIOUS
    <3>1. offset * Streams >= PerStream * Streams
      BY <1>1, <1>2, <2>1
    <3> QED BY <1>1, <1>2, <2>1, <2>3, <3>1
  <2> QED BY <1>2, <2>1, <2>4
<1>4. IsFiniteSet(0..(PerStream - 1)) /\ Cardinality(0..(PerStream - 1)) = PerStream
  <2>1. IsFiniteSet(0..(PerStream - 1))
        /\ Cardinality(0..(PerStream - 1)) = IF 0 > PerStream - 1 THEN 0 ELSE (PerStream - 1) - 0 + 1
    BY <1>2, FS_Interval
  <2> QED BY <1>2, <2>1
<1>5. /\ IsFiniteSet(Selection(k, jobs))
      /\ Cardinality(Selection(k, jobs)) <= Cardinality(0..(PerStream - 1))
  <2>1. Selection(k, jobs) \subseteq 0..(PerStream - 1)
    BY <1>3
  <2> QED BY <1>4, <2>1, FS_Subset
<1>6. Cardinality(Selection(k, jobs)) \in Nat
  BY <1>5, FS_CardinalityType
<1> QED BY <1>2, <1>4, <1>5, <1>6

\* What a shard queues (launch).
LEMMA LaunchesType ==
    ASSUME NEW b \in 0..PerStream
    PROVE  Launches(b) \in Seq(Operations)
<1> DEFINE s == <<Operation("upload vector", b, 0), Operation("upload indices", b, 0),
                  Operation("quotient", b, 0), Operation("diagonal", b, 0),
                  Operation("buckets", b, 1)>>
           t == [level \in 1..(Len(Levels) - 1) |-> Operation("reduce", b, level)]
           u == <<Operation("normalize", b, Len(Levels)), Operation("download", b, 0)>>
<1>1. \A level \in Nat :
          /\ Operation("upload vector", b, level) \in Operations
          /\ Operation("upload indices", b, level) \in Operations
          /\ Operation("quotient", b, level) \in Operations
          /\ Operation("diagonal", b, level) \in Operations
          /\ Operation("buckets", b, level) \in Operations
          /\ Operation("reduce", b, level) \in Operations
          /\ Operation("normalize", b, level) \in Operations
          /\ Operation("download", b, level) \in Operations
  BY DEF Operations, Operation, Names
<1>2. 0 \in Nat /\ 1 \in Nat /\ Len(Levels) \in Nat
  BY LevelsType
<1>3. s \in Seq(Operations)
  <2> DEFINE o1 == Operation("upload vector", b, 0)
             o2 == Operation("upload indices", b, 0)
             o3 == Operation("quotient", b, 0)
             o4 == Operation("diagonal", b, 0)
             o5 == Operation("buckets", b, 1)
             O == Operations
  <2>1. o1 \in O /\ o2 \in O /\ o3 \in O /\ o4 \in O /\ o5 \in O
    BY <1>1, <1>2
  <2>2. s = <<o1, o2, o3, o4, o5>>
    OBVIOUS
  <2> HIDE DEF s, o1, o2, o3, o4, o5, O
  <2>3. <<o1, o2, o3, o4, o5>> \in Seq(O)
    BY ONLY <2>1
  <2> QED BY ONLY <2>2, <2>3 DEF O
<1>4. t \in Seq(Operations)
  <2> DEFINE n == IF Len(Levels) = 0 THEN 0 ELSE Len(Levels) - 1
  <2>1. n \in Nat /\ 1..(Len(Levels) - 1) = 1..n
    BY LevelsType
  <2>2. \A level \in 1..n : Operation("reduce", b, level) \in Operations
    <3>1. \A level \in 1..n : level \in Nat
      BY <2>1
    <3> QED BY <1>1, <3>1
  <2> HIDE DEF n
  <2> QED BY <2>1, <2>2
<1>5. u \in Seq(Operations)
  <2> DEFINE o1 == Operation("normalize", b, Len(Levels))
             o2 == Operation("download", b, 0)
             O == Operations
  <2>1. o1 \in O /\ o2 \in O
    BY <1>1, <1>2
  <2>2. u = <<o1, o2>>
    OBVIOUS
  <2> HIDE DEF u, o1, o2, O
  <2>3. <<o1, o2>> \in Seq(O)
    BY ONLY <2>1
  <2> QED BY ONLY <2>2, <2>3 DEF O
<1>6. Launches(b) = (s \o t) \o u
  BY DEF Launches
<1> HIDE DEF s, t, u
<1>7. s \o t \in Seq(Operations)
  BY ONLY <1>3, <1>4, JoinOnce
<1> DEFINE st == s \o t
<1>8. st \in Seq(Operations)
  BY <1>7
<1> HIDE DEF st
<1>9. st \o u \in Seq(Operations)
  BY ONLY <1>5, <1>8, JoinOnce
<1> QED BY <1>6, <1>9 DEF st

\* Each shard with a job fills its buffers and queues its work; then each is waited for
\* and collected.
LEMMA OpenCallsType ==
    ASSUME NEW jobs \in Batches
    PROVE  OpenCalls(jobs) \in Seq(OpenSteps)
<1> DEFINE n == Min({Streams, Len(jobs)})
           operations(k) == Launches(Cardinality(Selection(k, jobs)))
           asked(k) == [i \in DOMAIN operations(k) |-> Call("queue", <<k, operations(k)[i]>>)]
           launch(k) == <<Call("fill", k)>> \o asked(k)
           collect(k) == Sync(k) \o <<Call("collect", k)>>
           s == [i \in 1..n |-> launch(i - 1)]
           t == [i \in 1..n |-> collect(i - 1)]
<1>1. n \in 1..Streams /\ Streams \in Nat \ {0}
  <2>1. Streams \in Nat \ {0} /\ Len(jobs) \in Nat \ {0}
    BY DeviceAssumption
  <2> DEFINE least(x) == x \in {Streams, Len(jobs)} /\ \A y \in {Streams, Len(jobs)} : x <= y
  <2>2. least(Streams) \/ least(Len(jobs))
    BY <2>1
  <2>3. n = CHOOSE x \in {Streams, Len(jobs)} : \A y \in {Streams, Len(jobs)} : x <= y
    BY DEF Min
  <2>4. least(n)
    BY <2>2, <2>3
  <2> HIDE DEF n
  <2> QED BY <2>1, <2>4
<1>2. OpenCalls(jobs) = FlattenSeq(s) \o FlattenSeq(t)
  <2>1. DOMAIN Working(jobs) = 1..n /\ \A i \in 1..n : Working(jobs)[i] = i - 1
    BY DEF Working
  <2> HIDE DEF n, launch, collect
  <2>2. s = [i \in DOMAIN Working(jobs) |-> launch(Working(jobs)[i])]
    BY <2>1
  <2>3. t = [i \in DOMAIN Working(jobs) |-> collect(Working(jobs)[i])]
    BY <2>1
  <2> HIDE DEF s, t
  <2> QED BY <2>2, <2>3 DEF OpenCalls, launch, collect
<1>3. ASSUME NEW k \in Shards PROVE launch(k) \in Seq(OpenSteps)
  <2>1. operations(k) \in Seq(Operations)
    BY ShardFits, LaunchesType
  <2>2. <<Call("fill", k)>> \in Seq(OpenSteps)
    <3>1. Call("fill", k) \in OpenSteps
      BY DEF Call, OpenSteps
    <3> QED BY <3>1
  <2>3. asked(k) \in Seq(OpenSteps)
    <3> DEFINE o == operations(k)
    <3>1. o \in Seq(Operations)
      BY <2>1
    <3> HIDE DEF o
    <3>2. Len(o) \in Nat /\ DOMAIN o = 1..Len(o) /\ \A i \in 1..Len(o) : o[i] \in Operations
      BY <3>1
    <3>3. \A i \in 1..Len(o) : Call("queue", <<k, o[i]>>) \in OpenSteps
      BY <3>2 DEF Call, OpenSteps
    <3>4. [i \in 1..Len(o) |-> Call("queue", <<k, o[i]>>)] \in Seq(OpenSteps)
      BY <3>2, <3>3
    <3> QED BY <3>2, <3>4 DEF o
  <2> HIDE DEF operations, asked
  <2> QED BY <2>2, <2>3, JoinOnce
<1>4. ASSUME NEW k \in Shards PROVE collect(k) \in Seq(OpenSteps)
  <2>1. Call("sync", k) \in OpenSteps /\ Call("collect", k) \in OpenSteps
    BY DEF Call, OpenSteps
  <2>2. Sync(k) \in Seq(OpenSteps) /\ <<Call("collect", k)>> \in Seq(OpenSteps)
    BY <2>1 DEF Sync
  <2> QED BY <2>2, JoinOnce
<1> HIDE DEF n, launch, collect
<1>5. n \in Nat \ {0} /\ \A i \in 1..n : i - 1 \in Shards
  BY <1>1 DEF Shards
<1>6. s \in [1..n -> Seq(OpenSteps)] /\ t \in [1..n -> Seq(OpenSteps)]
  BY <1>3, <1>4, <1>5
<1> HIDE DEF s, t
<1>7. FlattenSeq(s) \in Seq(OpenSteps) /\ FlattenSeq(t) \in Seq(OpenSteps)
  BY <1>5, <1>6, FlatPlaces
<1> DEFINE a == FlattenSeq(s)
           b == FlattenSeq(t)
<1>8. a \in Seq(OpenSteps) /\ b \in Seq(OpenSteps)
  BY <1>7
<1> HIDE DEF a, b
<1>9. a \o b \in Seq(OpenSteps)
  BY ONLY <1>8, JoinOnce
<1> QED BY <1>2, <1>9 DEF a, b

-----------------------------------------------------------------------------
(* The invariant holds.                                                     *)

\* It holds before the first call.
LEMMA InitHolds == Init => IInv
<1> SUFFICES ASSUME Init PROVE IInv
  OBVIOUS
<1>1. NewDevice \in Seq(Calls) /\ Count \in Nat /\ Count >= 26
  BY NewDeviceIs
<1>2. /\ phase = "starting" /\ next = NewDevice /\ held = {} /\ known = {}
      /\ queues = [k \in Shards \cup {Default} |-> <<>>]
  BY DEF Init
<1>3. TypeInv
  BY <1>2 DEF TypeInv
<1>4. TakenBy(0) = {}
  BY DEF TakenBy
<1>5. SubSeq(NewDevice, 0 + 1, Count) = NewDevice
  <2> DEFINE s == NewDevice
             c == Len(s)
             t == SubSeq(s, 1, c)
  <2>1. s \in Seq(Calls) /\ c \in Nat /\ Count = c
    BY <1>1 DEF Count
  <2> HIDE DEF s
  <2>2. t \in Seq(Calls) /\ Len(t) = c /\ \A i \in 1..c : t[i] = s[i]
    BY <2>1
  <2> HIDE DEF t
  <2>3. t = s
    BY <2>1, <2>2
  <2> QED BY <2>1, <2>3 DEF s, t
<1>6. Started(0)
  BY <1>2, <1>4, <1>5 DEF Started
<1>7. 0 \in 0..Count
  BY <1>1
<1>8. StartInv
  BY <1>6, <1>7 DEF StartInv
<1> QED BY <1>2, <1>3, <1>8 DEF IInv, OpenInv, CloseInv, Backed

\* The call that newDevice comes to.
LEMMA StartHead ==
    ASSUME IInv, phase = "starting", next # <<>>
    PROVE  \E n \in 0..(Count - 1) :
              /\ Started(n) /\ n + 1 \in 1..Count
              /\ Head(next) = NewDevice[n + 1]
              /\ Tail(next) = SubSeq(NewDevice, n + 2, Count)
<1>1. PICK n \in 0..Count : Started(n)
  BY DEF IInv, StartInv
<1> DEFINE s == NewDevice
<1>2. s \in Seq(Calls) /\ Len(s) = Count /\ Count \in Nat
  BY NewDeviceIs DEF Count
<1>3. next = SubSeq(s, n + 1, Len(s)) /\ n \in 0..Len(s)
  BY <1>1, <1>2 DEF Started
<1> HIDE DEF s
<1>4. n # Len(s)
  BY <1>2, <1>3, RestOf
<1>5. n < Len(s)
  BY <1>2, <1>3, <1>4
<1>6. Head(next) = s[n + 1] /\ Tail(next) = SubSeq(s, n + 2, Len(s))
  BY <1>2, <1>3, <1>5, RestOf
<1>7. n \in 0..(Count - 1) /\ n + 1 \in 1..Count
  BY <1>2, <1>5
<1> QED BY <1>1, <1>2, <1>6, <1>7 DEF s

\* While a copy goes on the next call waits for it.
LEMMA CopyIsWaitedFor ==
    ASSUME NEW n \in 0..(Count - 1), Started(n), queues[Default] # <<>>
    PROVE  NewDevice[n + 1].call = "sync"
<1>1. Count \in Nat
  BY NewDeviceIs
<1>2. n \in 1..Count /\ NewDevice[n].call = "copy"
  BY <1>1 DEF Started
<1> QED BY <1>2, CallsAre

\* One call of newDevice more.
LEMMA StartStep ==
    ASSUME IInv, NEW n \in 0..(Count - 1), Started(n), phase = "starting",
           phase' = "starting", next' = SubSeq(NewDevice, n + 2, Count),
           known' = TakenBy(n + 1), held' = TakenBy(n + 1) \ Gone(n + 1),
           queues' = [k \in Shards \cup {Default} |-> queues'[k]],
           \A k \in Shards : queues'[k] = queues[k],
           queues'[Default] # <<>> =>
              /\ NewDevice[n + 1].call = "copy"
              /\ \E name \in CardTables : queues'[Default] = <<name>> /\ Whole(name) \in held'
    PROVE  IInv'
<1>1. TypeInv'
  BY DEF IInv, TypeInv
<1>2. \A k \in Shards : queues'[k] = <<>>
  BY DEF Started
<1>3. n + 1 \in 0..Count /\ n + 1 > 0 /\ (n + 1) + 1 = n + 2
  <2>1. Count \in Nat
    BY NewDeviceIs
  <2> QED BY <2>1
<1>4. Started(n + 1)'
  BY <1>2, <1>3 DEF Started
<1>5. StartInv'
  BY <1>3, <1>4 DEF StartInv
<1>6. Backed'
  BY <1>2 DEF Backed
<1> QED BY <1>1, <1>5, <1>6 DEF IInv, OpenInv, CloseInv

\* The calls of newDevice, one by one: a copy comes after what it copies into was taken,
\* and nothing goes on while something is given back.
LEMMA NewDeviceSteps ==
    ASSUME IInv, phase = "starting", Asked \/ Taken \/ Dropped \/ Copied \/ Synchronized
    PROVE  IInv'
<1>1. next # <<>> /\ next' = Tail(next) /\ phase' = "starting"
  BY DEF Asked, Taken, Dropped, Copied, Synchronized, Calling
<1>2. PICK n \in 0..(Count - 1) :
          /\ Started(n) /\ n + 1 \in 1..Count
          /\ Head(next) = NewDevice[n + 1]
          /\ Tail(next) = SubSeq(NewDevice, n + 2, Count)
  BY <1>1, StartHead
<1> DEFINE c == NewDevice[n + 1]
<1>3. On = c.on /\ \A name : Calling(name) => c.call = name
  BY <1>2 DEF On, Calling
<1>4. known = TakenBy(n) /\ held = TakenBy(n) \ Gone(n)
  BY <1>2 DEF Started
<1>5. /\ c.call = "take" => TakenBy(n + 1) = TakenBy(n) \cup {c.on}
                               /\ c.on \notin Gone(n + 1) /\ Gone(n + 1) = Gone(n)
      /\ c.call \in {"drop", "free"} => TakenBy(n + 1) = TakenBy(n)
                               /\ Gone(n + 1) = Gone(n) \cup {c.on}
                               /\ c.on \in TakenBy(n) \ Gone(n) /\ c.on # Whole("context")
      /\ c.call \in {"ask", "copy", "sync"} => TakenBy(n + 1) = TakenBy(n) /\ Gone(n + 1) = Gone(n)
  BY TakenNext
<1>6. queues = [k \in Shards \cup {Default} |-> queues[k]] /\ Default \notin Shards
  BY NamesDiffer DEF IInv, TypeInv
<1>7. queues[Default] # <<>> => c.call = "sync"
  BY <1>2, CopyIsWaitedFor
<1> DEFINE a == known' = TakenBy(n + 1) /\ held' = TakenBy(n + 1) \ Gone(n + 1)
           b == /\ queues' = [k \in Shards \cup {Default} |-> queues'[k]]
                /\ \A k \in Shards : queues'[k] = queues[k]
                /\ queues'[Default] # <<>> =>
                      /\ c.call = "copy"
                      /\ \E name \in CardTables : queues'[Default] = <<name>> /\ Whole(name) \in held'
<1>8. a /\ b => IInv'
  BY <1>1, <1>2, StartStep
<1> HIDE DEF c
<1>9. CASE Asked
  <2>1. c.call = "ask" /\ known' = known /\ held' = held /\ queues' = queues
    BY <1>3, <1>9 DEF Asked
  <2> QED BY <1>4, <1>5, <1>6, <1>7, <1>8, <2>1
<1>10. CASE Taken
  <2>1. c.call = "take" /\ known' = known \cup {c.on} /\ held' = held \cup {c.on} /\ queues' = queues
    BY <1>3, <1>10 DEF Taken
  <2> QED BY <1>4, <1>5, <1>6, <1>7, <1>8, <2>1
<1>11. CASE Dropped
  <2>1. c.call \in {"drop", "free"} /\ known' = known /\ queues' = queues
    BY <1>3, <1>11 DEF Dropped
  <2>2. held' = {r \in held \ {c.on} : c.on = Whole("context") => ~OnCard(r)}
    BY <1>3, <1>11 DEF Dropped
  <2>3. held' = held \ {c.on}
    BY <1>5, <2>1, <2>2
  <2> QED BY <1>4, <1>5, <1>6, <1>7, <1>8, <2>1, <2>3
<1>12. CASE Copied
  <2>1. c.call = "copy" /\ known' = known /\ held' = held
    BY <1>3, <1>12 DEF Copied
  <2>2. queues' = [queues EXCEPT ![Default] = Append(@, c.on)]
    BY <1>3, <1>12 DEF Copied
  <2>3. queues[Default] = <<>>
    BY <1>7, <2>1
  <2>4. queues'[Default] = <<c.on>> /\ \A k \in Shards : queues'[k] = queues[k]
    <3>1. queues'[Default] = Append(<<>>, c.on)
      BY <1>6, <2>2, <2>3
    <3>2. Append(<<>>, c.on) = <<c.on>>
      OBVIOUS
    <3> QED BY <1>6, <2>2, <3>1, <3>2
  <2>5. queues' = [k \in Shards \cup {Default} |-> queues'[k]]
    BY <1>6, <2>2
  <2>6. c.on \in CardTables /\ n + 1 \in {14, 17, 21, 24}
        /\ NewDevice[(n + 1) - 1] = Call("take", Whole(c.on))
    BY <1>2, <2>1, CallsAre DEF c
  <2>7. n \in 1..n /\ n \in 1..Count /\ (n + 1) - 1 = n
    <3>1. Count \in Nat
      BY NewDeviceIs
    <3> QED BY <2>6, <3>1
  <2>8. NewDevice[n].call = "take" /\ NewDevice[n].on = Whole(c.on)
    BY <2>6, <2>7 DEF Call
  <2>9. Whole(c.on) \in held
    <3>1. Whole(c.on) \in TakenBy(n)
      BY <2>7, <2>8 DEF TakenBy
    <3>2. Whole(c.on) # Whole("program")
      BY <2>6, NamesDiffer DEF CardTables
    <3>3. Whole(c.on) = Whole("bases") => n = 13
      BY <2>7, <2>8, CallsAre
    <3> QED BY <1>4, <3>1, <3>2, <3>3 DEF Gone
  <2> QED BY <1>4, <1>5, <1>8, <2>1, <2>4, <2>5, <2>6, <2>9
<1>13. CASE Synchronized
  <2>1. c.call = "sync" /\ known' = known /\ held' = held /\ queues' = queues
    BY <1>3, <1>13 DEF Synchronized
  <2>2. c.on \in {Default, All}
    BY <1>2, <2>1, CallsAre DEF c
  <2>3. Default \in Waited(c.on)
    <3>1. Default \in DOMAIN queues
      BY <1>6
    <3> QED BY <2>2, <3>1 DEF Waited
  <2>4. queues[Default] = <<>>
    BY <1>3, <1>13, <2>3 DEF Synchronized
  <2> QED BY <1>4, <1>5, <1>6, <1>8, <2>1, <2>4
<1> QED BY <1>9, <1>10, <1>11, <1>12, <1>13

\* What the calls of an open queue is for a shard, and all that it works on is there.
LEMMA OpenSteady ==
    ASSUME IInv, phase = "opening", next # <<>>,
           Asked \/ Taken \/ Dropped \/ Copied \/ Synchronized \/ Filled \/ Queued \/ Gathered
    PROVE  IInv'
<1>1. next' = Tail(next) /\ phase' = "opening"
  BY DEF Asked, Taken, Dropped, Copied, Synchronized, Filled, Queued, Gathered
<1>2. Head(next) \in OpenSteps /\ Tail(next) \in Seq(OpenSteps)
  <2>1. next \in Seq(OpenSteps)
    BY DEF IInv, OpenInv
  <2> QED BY <2>1, TailOnce
<1>3. /\ Head(next).call \in {"fill", "sync", "collect", "queue"}
      /\ Head(next).call = "queue" => On \in Shards \X Operations
  BY <1>2 DEF OpenSteps, On
<1>4. ~Asked /\ ~Taken /\ ~Dropped /\ ~Copied
  BY <1>3 DEF Asked, Taken, Dropped, Copied, Calling
<1>5. /\ queues = [k \in Shards \cup {Default} |-> queues[k]] /\ Default \notin Shards
      /\ \A k \in Shards : queues[k] \in Seq(Operations)
      /\ queues[Default] = <<>> /\ known = Everything /\ held = Lasting
  BY NamesDiffer DEF IInv, TypeInv, OpenInv
<1>6. known' = known /\ held' = held
  BY <1>4 DEF Synchronized, Filled, Queued, Gathered
<1>7. ASSUME queues' = [k \in Shards \cup {Default} |-> queues'[k]],
             \A k \in Shards : queues'[k] \in Seq(Operations), queues'[Default] = <<>>
      PROVE  IInv'
  <2>1. TypeInv'
    BY <1>1, <1>7 DEF TypeInv
  <2>2. OpenInv'
    BY <1>1, <1>2, <1>5, <1>6, <1>7 DEF OpenInv
  <2>3. Backed'
    BY <1>5, <1>6, <1>7 DEF Backed
  <2> QED BY <1>1, <2>1, <2>2, <2>3 DEF IInv, StartInv, CloseInv
<1>8. CASE Synchronized \/ Filled \/ Gathered
  <2>1. queues' = queues
    BY <1>8 DEF Synchronized, Filled, Gathered
  <2> QED BY <1>5, <1>7, <2>1
<1>9. CASE Queued
  <2>1. PICK k \in Shards, op \in Operations : On = <<k, op>>
    BY <1>3, <1>9 DEF Queued, Calling
  <2>2. On[1] = k /\ On[2] = op
    BY <2>1
  <2>3. queues' = [queues EXCEPT ![k] = Append(@, op)]
    BY <1>9, <2>2 DEF Queued
  <2>4. Append(queues[k], op) \in Seq(Operations)
    BY <1>5
  <2>5. /\ queues'[k] = Append(queues[k], op) /\ queues'[Default] = queues[Default]
        /\ \A j \in Shards : j # k => queues'[j] = queues[j]
        /\ queues' = [j \in Shards \cup {Default} |-> queues'[j]]
    BY <1>5, <2>3
  <2>6. \A j \in Shards : queues'[j] \in Seq(Operations)
    BY <1>5, <2>4, <2>5
  <2> QED BY <1>5, <1>7, <2>5, <2>6
<1> QED BY <1>4, <1>8, <1>9

\* What is in use after r is given back.
Without(h, r) == {q \in h \ {r} : r = Whole("context") => ~OnCard(q)}

\* What a step of close leaves to be given back.
LEMMA GiveBackOne ==
    ASSUME NEW s, NEW h, s # <<>>, GiveBack(s, h)
    PROVE  /\ Head(s) = AtOnce => GiveBack(Tail(s), h)
           /\ Head(s) # AtOnce =>
                 \E r \in h :
                    /\ Head(s) = Call("drop", r)
                    /\ GiveBack(Tail(s), Without(h, r))
<1>1. /\ s \in Seq(Calls) /\ Once(s)
      /\ \A c \in ToSet(s) : c = AtOnce \/ \E r \in h : c = Call("drop", r) /\ ~OnCard(r)
      /\ \A r \in h : \/ Call("drop", r) \in ToSet(s)
                      \/ OnCard(r) /\ Call("drop", Whole("context")) \in ToSet(s)
  BY DEF GiveBack
<1> DEFINE t == Tail(s)
           c == Head(s)
<1>2. t \in Seq(Calls) /\ ToSet(s) = {c} \cup ToSet(t) /\ Once(t) /\ c \notin ToSet(t)
  BY <1>1, TailOnce
<1> HIDE DEF t, c
<1>3. \A r : AtOnce # Call("drop", r)
  BY DEF AtOnce, Call
<1>4. \A r, q : Call("drop", r) = Call("drop", q) => r = q
  BY DEF Call
<1>5. ASSUME c = AtOnce PROVE GiveBack(t, h)
  BY <1>1, <1>2, <1>3, <1>5 DEF GiveBack
<1>6. ASSUME c # AtOnce
      PROVE  \E r \in h :
                 /\ c = Call("drop", r)
                 /\ GiveBack(t, Without(h, r))
  <2>1. PICK r \in h : c = Call("drop", r)
    BY <1>1, <1>2, <1>6
  <2> DEFINE rest == Without(h, r)
  <2>2. ASSUME NEW x \in ToSet(t), x # AtOnce PROVE \E q \in rest : x = Call("drop", q) /\ ~OnCard(q)
    <3>1. PICK q \in h : x = Call("drop", q) /\ ~OnCard(q)
      BY <1>1, <1>2, <2>2
    <3>2. q # r
      BY <1>2, <2>1, <2>2, <3>1
    <3> QED BY <3>1, <3>2 DEF Without
  <2>3. ASSUME NEW q \in rest
        PROVE  \/ Call("drop", q) \in ToSet(t)
               \/ OnCard(q) /\ Call("drop", Whole("context")) \in ToSet(t)
    <3>1. q \in h /\ q # r /\ (r = Whole("context") => ~OnCard(q))
      BY DEF Without
    <3>2. CASE Call("drop", q) \in ToSet(s)
      BY <1>2, <1>4, <2>1, <3>1, <3>2
    <3>3. CASE OnCard(q) /\ Call("drop", Whole("context")) \in ToSet(s)
      BY <1>2, <1>4, <2>1, <3>1, <3>3
    <3> QED BY <1>1, <3>1, <3>2, <3>3
  <2> HIDE DEF rest
  <2>4. GiveBack(t, rest)
    BY <1>2, <2>2, <2>3 DEF GiveBack
  <2> QED BY <2>1, <2>4 DEF rest
<1> QED BY <1>5, <1>6 DEF t, c

\* While the device is closed.
LEMMA CloseSteps ==
    ASSUME IInv, phase = "closing", next # <<>>,
           \/ Asked \/ Taken \/ Dropped \/ Copied \/ Synchronized \/ Filled \/ Queued \/ Gathered
           \/ FailClosing
    PROVE  IInv'
<1>1. next' = Tail(next) /\ phase' = "closing"
  BY DEF Asked, Taken, Dropped, Copied, Synchronized, Filled, Queued, Gathered, FailClosing
<1>2. /\ queues = [k \in Shards \cup {Default} |-> queues[k]]
      /\ GiveBack(next, held)
      /\ (\A k \in Shards \cup {Default} : queues[k] = <<>>) \/ Head(next) = AtOnce
  BY DEF IInv, TypeInv, CloseInv
<1>3. ASSUME \A k \in Shards \cup {Default} : queues'[k] = <<>>,
             queues' = [k \in Shards \cup {Default} |-> queues'[k]],
             GiveBack(next', held')
      PROVE  IInv'
  <2>1. TypeInv'
    <3>1. <<>> \in Seq(Operations)
      OBVIOUS
    <3>2. \A k \in Shards : queues'[k] \in Seq(Operations)
      BY <1>3, <3>1
    <3> QED BY <1>1, <1>3, <3>2 DEF TypeInv
  <2>2. CloseInv'
    BY <1>1, <1>3 DEF CloseInv
  <2>3. Backed'
    BY <1>3 DEF Backed
  <2> QED BY <1>1, <2>1, <2>2, <2>3 DEF IInv, StartInv, OpenInv
<1>4. CASE Head(next) = AtOnce
  <2>1. Head(next).call = "sync" /\ On = All
    BY <1>4 DEF AtOnce, Call, On
  <2>2. Synchronized \/ FailClosing
    BY <2>1 DEF Asked, Taken, Dropped, Copied, Filled, Queued, Gathered, Calling
  <2>3. held' = held /\ GiveBack(next', held')
    <3>1. held' = held
      BY <2>2 DEF Synchronized, FailClosing
    <3>2. GiveBack(Tail(next), held)
      BY <1>2, <1>4, GiveBackOne
    <3> QED BY <1>1, <3>1, <3>2
  <2>4. \A q \in Shards \cup {Default} : q \in DOMAIN queues /\ q \in Waited(All)
    BY <1>2 DEF Waited
  <2>5. CASE Synchronized
    BY <1>2, <1>3, <2>1, <2>3, <2>4, <2>5 DEF Synchronized
  <2>6. CASE FailClosing
    <3>1. queues' = [q \in DOMAIN queues |-> IF q \in Waited(All) THEN <<>> ELSE queues[q]]
      BY <2>1, <2>6 DEF FailClosing, Emptied
    <3>2. DOMAIN queues = Shards \cup {Default}
      BY <1>2
    <3> QED BY <1>3, <2>3, <2>4, <3>1, <3>2
  <2> QED BY <2>2, <2>5, <2>6
<1>5. CASE Head(next) # AtOnce
  <2>1. PICK r \in held :
            /\ Head(next) = Call("drop", r)
            /\ GiveBack(Tail(next), Without(held, r))
    BY <1>2, <1>5, GiveBackOne
  <2>2. Head(next).call = "drop" /\ On = r
    BY <2>1 DEF Call, On
  <2>3. Dropped
    BY <2>2 DEF Asked, Taken, Copied, Synchronized, Filled, Queued, Gathered, FailClosing, Calling
  <2>4. held' = Without(held, r) /\ queues' = queues
    BY <2>2, <2>3 DEF Dropped, Without
  <2>5. GiveBack(next', held')
    BY <1>1, <2>1, <2>4
  <2> QED BY <1>2, <1>3, <1>5, <2>4, <2>5
<1> QED BY <1>4, <1>5

\* The card does something of what is queued.
LEMMA RunKeeps ==
    ASSUME IInv, NEW k \in Shards \cup {Default}, Run(k)
    PROVE  IInv'
<1>1. /\ queues = [q \in Shards \cup {Default} |-> queues[q]] /\ Default \notin Shards
      /\ \A q \in Shards : queues[q] \in Seq(Operations)
  BY NamesDiffer DEF IInv, TypeInv
<1>2. /\ queues[k] # <<>> /\ queues' = [queues EXCEPT ![k] = Tail(@)]
      /\ phase' = phase /\ next' = next /\ held' = held /\ known' = known
  BY DEF Run
<1>3. /\ queues'[k] = Tail(queues[k])
      /\ \A q \in Shards \cup {Default} : q # k => queues'[q] = queues[q]
      /\ queues' = [q \in Shards \cup {Default} |-> queues'[q]]
  BY <1>1, <1>2
<1>4. k \in Shards => Tail(queues[k]) \in Seq(Operations)
  BY <1>1, <1>2
<1>5. TypeInv'
  <2>1. \A q \in Shards : queues'[q] \in Seq(Operations)
    BY <1>1, <1>3, <1>4
  <2> QED BY <1>2, <1>3, <2>1 DEF IInv, TypeInv
<1>6. k = Default => queues'[Default] = <<>>
  <2> SUFFICES ASSUME k = Default PROVE queues'[Default] = <<>>
    OBVIOUS
  <2>1. PICK name \in CardTables : queues[Default] = <<name>>
    BY <1>2 DEF IInv, Backed
  <2>2. Tail(<<name>>) = <<>>
    OBVIOUS
  <2> QED BY <1>3, <2>1, <2>2
<1>7. StartInv'
  <2> SUFFICES ASSUME phase = "starting" PROVE \E n \in 0..Count : Started(n)'
    BY <1>2 DEF StartInv
  <2>1. PICK n \in 0..Count : Started(n)
    BY DEF IInv, StartInv
  <2>2. k = Default
    BY <1>2, <2>1 DEF Started
  <2>3. \A q \in Shards : queues'[q] = <<>>
    BY <1>1, <1>3, <2>1, <2>2 DEF Started
  <2>4. Started(n)'
    BY <1>2, <1>6, <2>1, <2>2, <2>3 DEF Started
  <2> QED BY <2>4
<1>8. OpenInv'
  <2> SUFFICES ASSUME phase = "opening" PROVE OpenInv'
    BY <1>2 DEF OpenInv
  <2>1. k # Default /\ queues[Default] = <<>>
    BY <1>2 DEF IInv, OpenInv
  <2>2. queues'[Default] = <<>>
    BY <1>3, <2>1
  <2> QED BY <1>2, <2>2 DEF IInv, OpenInv
<1>9. CloseInv'
  BY <1>2 DEF IInv, CloseInv
<1>10. Backed'
  BY <1>1, <1>2, <1>3, <1>6 DEF IInv, Backed
<1> QED BY <1>5, <1>7, <1>8, <1>9, <1>10 DEF IInv

\* A device that is initialized has everything but what was only passing.
LEMMA WhenIdle ==
    ASSUME IInv, Idle
    PROVE  known = Everything /\ held = Lasting /\ queues[Default] = <<>>
<1>1. CASE phase = "opening"
  BY <1>1 DEF IInv, OpenInv
<1>2. CASE phase = "starting"
  <2>1. PICK n \in 0..Count : Started(n)
    BY <1>2 DEF IInv, StartInv
  <2> DEFINE s == NewDevice
  <2>2. s \in Seq(Calls) /\ Len(s) = Count /\ Count \in Nat /\ Count >= 26
    BY NewDeviceIs DEF Count
  <2>3. next = SubSeq(s, n + 1, Len(s)) /\ n \in 0..Len(s) /\ next = <<>>
    BY <2>1, <2>2 DEF Started, Idle
  <2> HIDE DEF s
  <2>4. n = Count
    BY <2>2, <2>3, RestOf
  <2>5. TakenBy(n) = Everything
    BY <2>4, TakenAre DEF Everything
  <2>6. Gone(n) = Passing
    BY <2>2, <2>4 DEF Gone, Passing
  <2>7. queues[Default] = <<>>
    <3> SUFFICES ASSUME queues[Default] # <<>> PROVE FALSE
      OBVIOUS
    <3>1. NewDevice[n].call = "copy" /\ n \in 1..Count
      BY <2>1, <2>2, <2>4 DEF Started
    <3>2. n \in {14, 17, 21, 24}
      BY <3>1, CallsAre
    <3> QED BY <2>2, <2>4, <3>2
  <2> QED BY <2>1, <2>5, <2>6, <2>7 DEF Started, Lasting
<1> QED BY <1>1, <1>2 DEF Idle

\* An open begins.
LEMMA OpenKeeps ==
    ASSUME IInv, NEW jobs \in Batches, Open(jobs)
    PROVE  IInv'
<1>1. /\ Idle /\ phase' = "opening" /\ next' = OpenCalls(jobs)
      /\ held' = held /\ known' = known /\ queues' = queues
  BY DEF Open
<1>2. known = Everything /\ held = Lasting /\ queues[Default] = <<>>
  BY <1>1, WhenIdle
<1>3. OpenInv'
  BY <1>1, <1>2, OpenCallsType DEF OpenInv
<1>4. TypeInv'
  BY <1>1 DEF IInv, TypeInv
<1>5. Backed'
  BY <1>1, <1>2 DEF Backed
<1> QED BY <1>1, <1>3, <1>4, <1>5 DEF IInv, StartInv, CloseInv

\* Closing begins with calls s.
LEMMA CloseBegins ==
    ASSUME IInv, NEW d,
           d = IF Whole("program") \in held THEN <<Call("drop", Whole("program"))>> ELSE <<>>,
           held \subseteq known, known \subseteq Everything, known \ held \subseteq Passing,
           Whole("context") \notin known =>
               /\ known \subseteq {Whole("driver"), Whole("compiler"), Whole("program")}
               /\ \A k \in Shards \cup {Default} : queues[k] = <<>>,
           Whole("context") \in known => Whole("program") \notin held,
           phase' = "closing", next' = d \o CloseDevice, held' = held,
           queues' = [k \in Shards \cup {Default} |-> queues'[k]],
           \A k \in Shards \cup {Default} : queues'[k] \in {queues[k], <<>>}
    PROVE  IInv'
<1>1. /\ GiveBack(d \o CloseDevice, held)
      /\ Whole("context") \in known => d \o CloseDevice # <<>> /\ Head(d \o CloseDevice) = AtOnce
  BY ClosingGivesBack
<1>2. Whole("context") \notin known => \A k \in Shards \cup {Default} : queues'[k] = <<>>
  OBVIOUS
<1>3. CloseInv'
  BY <1>1, <1>2 DEF CloseInv
<1>4. TypeInv'
  <2>1. \A k \in Shards : queues'[k] \in Seq(Operations)
    <3> TAKE k \in Shards
    <3>1. queues[k] \in Seq(Operations) /\ <<>> \in Seq(Operations)
      BY DEF IInv, TypeInv
    <3> QED BY <3>1
  <2> QED BY <2>1 DEF TypeInv
<1>5. Backed'
  <2>1. \A k \in Shards \cup {Default} : queues'[k] # <<>> => queues'[k] = queues[k]
    OBVIOUS
  <2> QED BY <2>1 DEF IInv, Backed
<1> QED BY <1>3, <1>4, <1>5 DEF IInv, StartInv, OpenInv

\* The worker is told to stop.
LEMMA CloseKeeps ==
    ASSUME IInv, Close
    PROVE  IInv'
<1>1. /\ Idle /\ phase' = "closing" /\ next' = CloseDevice
      /\ held' = held /\ known' = known /\ queues' = queues
  BY DEF Close
<1>2. known = Everything /\ held = Lasting
  BY <1>1, WhenIdle
<1>3. Whole("context") \in Everything /\ Whole("program") \notin Lasting
  BY DEF Everything, Wholes, Lasting, Passing
<1>4. CloseDevice = <<>> \o CloseDevice
  <2> DEFINE s == CloseDevice
             e == <<>>
             joined == e \o s
  <2>1. s \in Seq(Calls) /\ e \in Seq(Calls) /\ joined = e \o s /\ Len(e) = 0
    BY CloseCalls
  <2> HIDE DEF s, e, joined
  <2>2. /\ joined \in Seq(Calls) /\ Len(joined) = Len(e) + Len(s) /\ Len(s) \in Nat
        /\ \A x \in 1..Len(s) : joined[Len(e) + x] = s[x]
    BY ONLY <2>1, Joins
  <2>3. Len(joined) = Len(s) /\ \A x \in 1..Len(s) : joined[x] = s[x]
    BY <2>1, <2>2
  <2>4. joined = s
    BY <2>1, <2>2, <2>3
  <2> QED BY <2>4 DEF joined, s, e
<1>5. queues = [k \in Shards \cup {Default} |-> queues[k]]
  BY DEF IInv, TypeInv
<1> DEFINE d == <<>>
<1>6. /\ d = IF Whole("program") \in held THEN <<Call("drop", Whole("program"))>> ELSE <<>>
      /\ next' = d \o CloseDevice
  BY <1>1, <1>2, <1>3, <1>4
<1>7. known \ held \subseteq Passing /\ held \subseteq known
  BY <1>2 DEF Lasting
<1> HIDE DEF d
<1> QED BY <1>1, <1>2, <1>3, <1>5, <1>6, <1>7, CloseBegins

\* The deferred call is made exactly when the program is there.
LEMMA DeferredIs ==
    ASSUME IInv, phase \in {"starting", "opening"}, next # <<>>, Head(next).call # "drop"
    PROVE  Deferred = IF Whole("program") \in held THEN <<Call("drop", Whole("program"))>> ELSE <<>>
<1> DEFINE destroy == Call("drop", Whole("program"))
           remains == \E c \in ToSet(Tail(next)) : c.call = "drop"
           later == Whole("program") \in known /\ remains
<1>1. Deferred = IF later THEN <<destroy>> ELSE <<>>
  BY DEF Deferred, ToSet
<1>2. destroy.call = "drop"
  BY DEF Call
<1>3. CASE phase = "opening"
  <2>1. Tail(next) \in Seq(OpenSteps)
    <3>1. next \in Seq(OpenSteps)
      BY <1>3 DEF IInv, OpenInv
    <3> QED BY <3>1, TailOnce
  <2>2. ~remains
    <3>1. \A c \in ToSet(Tail(next)) : c \in OpenSteps
      BY <2>1 DEF ToSet
    <3>2. \A c \in OpenSteps : c.call # "drop"
      BY DEF OpenSteps
    <3> QED BY <1>2, <3>1, <3>2
  <2>3. Whole("program") \notin held
    BY <1>3 DEF IInv, OpenInv, Lasting, Passing
  <2> QED BY <1>1, <2>2, <2>3
<1>4. CASE phase = "starting"
  <2>1. PICK n \in 0..(Count - 1) :
            /\ Started(n) /\ n + 1 \in 1..Count
            /\ Head(next) = NewDevice[n + 1]
            /\ Tail(next) = SubSeq(NewDevice, n + 2, Count)
    BY <1>4, StartHead
  <2> DEFINE s == NewDevice
             m == n + 1
  <2>2. s \in Seq(Calls) /\ Len(s) = Count /\ Count \in Nat /\ Count >= 26
    BY NewDeviceIs DEF Count
  <2>3. m \in 0..Len(s) /\ m + 1 = n + 2
    BY <2>2
  <2> HIDE DEF s, m
  <2>4. ToSet(SubSeq(s, m + 1, Len(s))) = {s[i] : i \in (m + 1)..Len(s)}
    BY <2>2, <2>3, RestOf
  <2>5. ToSet(Tail(next)) = {NewDevice[i] : i \in (n + 2)..Count}
    BY <2>1, <2>2, <2>3, <2>4 DEF s
  <2>6. n # 8
    BY <2>1, CallsAre
  <2>7. \A i \in (n + 2)..Count : i \in 1..Count
    BY <2>2
  <2>8. remains <=> n + 2 <= 9
    <3>1. ASSUME remains PROVE n + 2 <= 9
      <4>1. PICK i \in (n + 2)..Count : NewDevice[i].call = "drop"
        BY <2>5, <3>1
      <4>2. i = 9
        BY <2>7, <4>1, CallsAre
      <4> QED BY <4>2
    <3>2. ASSUME n + 2 <= 9 PROVE remains
      <4>1. 9 \in (n + 2)..Count /\ 9 \in 1..26
        BY <2>2, <3>2
      <4>2. NewDevice[9] = destroy
        BY <4>1, NewDeviceIs, ScriptIs
      <4> QED BY <1>2, <2>5, <4>1, <4>2
    <3> QED BY <3>1, <3>2
  <2>9. known = TakenBy(n) /\ held = TakenBy(n) \ Gone(n)
    BY <2>1 DEF Started
  <2>10. Whole("program") \in known <=> n >= 6
    BY <2>2, <2>9, TakenAre
  <2>11. Whole("program") \in Gone(n) <=> n >= 9
    BY NamesDiffer DEF Gone
  <2>12. later <=> Whole("program") \in held
    BY <2>2, <2>6, <2>8, <2>9, <2>10, <2>11
  <2> QED BY <1>1, <2>12
<1> QED BY <1>3, <1>4

\* Any call fails, and closing begins.
LEMMA FailKeeps ==
    ASSUME IInv, Fail
    PROVE  IInv'
<1>1. /\ phase \in {"starting", "opening"} /\ next # <<>> /\ Head(next).call # "drop"
      /\ phase' = "closing" /\ next' = Deferred \o CloseDevice
      /\ held' = held
  BY DEF Fail
<1>2. Deferred = IF Whole("program") \in held THEN <<Call("drop", Whole("program"))>> ELSE <<>>
  BY <1>1, DeferredIs
<1>3. queues = [k \in Shards \cup {Default} |-> queues[k]]
  BY DEF IInv, TypeInv
<1>4. /\ queues' = [k \in Shards \cup {Default} |-> queues'[k]]
      /\ \A k \in Shards \cup {Default} : queues'[k] \in {queues[k], <<>>}
  <2>1. DOMAIN queues = Shards \cup {Default}
    BY <1>3
  <2>2. CASE queues' = queues
    BY <1>3, <2>2
  <2>3. CASE queues' = Emptied(On)
    BY <2>1, <2>3 DEF Emptied
  <2> QED BY <2>2, <2>3 DEF Fail
<1>5. CASE phase = "opening"
  <2>1. known = Everything /\ held = Lasting
    BY <1>5 DEF IInv, OpenInv
  <2>2. Whole("context") \in known /\ Whole("program") \notin held
        /\ known \ held \subseteq Passing /\ held \subseteq known
    BY <2>1 DEF Everything, Wholes, Lasting, Passing
  <2> QED BY <1>1, <1>2, <1>4, <2>1, <2>2, CloseBegins
<1>6. CASE phase = "starting"
  <2>1. PICK n \in 0..(Count - 1) : Started(n)
    BY <1>1, <1>6, StartHead
  <2>2. n \in 0..Count /\ n \in Nat /\ Count \in Nat
    BY NewDeviceIs
  <2>3. known = TakenBy(n) /\ held = TakenBy(n) \ Gone(n)
    BY <2>1 DEF Started
  <2>4. known \subseteq Everything /\ held \subseteq known /\ known \ held \subseteq Passing
    BY <2>2, <2>3, TakenAre DEF Everything, Gone, Passing
  <2>5. ASSUME Whole("context") \notin known
        PROVE  /\ known \subseteq {Whole("driver"), Whole("compiler"), Whole("program")}
               /\ \A k \in Shards \cup {Default} : queues[k] = <<>>
    <3>1. n < 10
      BY <2>2, <2>3, <2>5, TakenAre
    <3>2. known \subseteq {Whole("driver"), Whole("compiler"), Whole("program")}
      BY <2>2, <2>3, <3>1, TakenAre
    <3>3. queues[Default] = <<>>
      <4> SUFFICES ASSUME queues[Default] # <<>> PROVE FALSE
        OBVIOUS
      <4>1. NewDevice[n].call = "copy" /\ n \in 1..Count
        BY <2>1, <2>2 DEF Started
      <4>2. n \in {14, 17, 21, 24}
        BY <4>1, CallsAre
      <4> QED BY <3>1, <4>2
    <3> QED BY <2>1, <3>2, <3>3 DEF Started
  <2>6. Whole("context") \in known => Whole("program") \notin held
    <3>1. Whole("context") \in known => n >= 10
      BY <2>2, <2>3, TakenAre
    <3>2. n >= 10 => Whole("program") \in Gone(n)
      BY <2>2 DEF Gone
    <3> QED BY <2>3, <3>1, <3>2
  <2> QED BY <1>1, <1>2, <1>4, <2>4, <2>5, <2>6, CloseBegins
<1> QED BY <1>1, <1>5, <1>6

\* Every step keeps the invariant.
LEMMA StepKeeps == IInv /\ [Next]_vars => IInv'
<1> SUFFICES ASSUME IInv, [Next]_vars PROVE IInv'
  OBVIOUS
<1> DEFINE called == \/ Asked \/ Taken \/ Dropped \/ Copied \/ Synchronized
                     \/ Filled \/ Queued \/ Gathered
<1>1. CASE called
  <2>1. next # <<>>
    BY <1>1 DEF Asked, Taken, Dropped, Copied, Synchronized, Filled, Queued, Gathered, Calling
  <2>2. CASE phase = "starting"
    <3>1. PICK n \in 0..(Count - 1) : n + 1 \in 1..Count /\ Head(next) = NewDevice[n + 1]
      BY <2>1, <2>2, StartHead
    <3>2. Head(next).call \in {"ask", "take", "copy", "sync", "drop", "free"}
      BY <3>1, CallsAre
    <3>3. ~Filled /\ ~Queued /\ ~Gathered
      BY <3>2 DEF Filled, Queued, Gathered, Calling
    <3> QED BY <1>1, <2>2, <3>3, NewDeviceSteps
  <2>3. CASE phase = "opening"
    BY <1>1, <2>1, <2>3, OpenSteady
  <2>4. CASE phase = "closing"
    BY <1>1, <2>1, <2>4, CloseSteps
  <2> QED BY <2>2, <2>3, <2>4 DEF IInv, TypeInv
<1>2. CASE \E k \in Shards \cup {Default} : Run(k)
  BY <1>2, RunKeeps
<1>3. CASE \E jobs \in Batches : Open(jobs)
  BY <1>3, OpenKeeps
<1>4. CASE Close
  BY <1>4, CloseKeeps
<1>5. CASE Fail
  BY <1>5, FailKeeps
<1>6. CASE FailClosing
  <2>1. phase = "closing" /\ next # <<>>
    BY <1>6 DEF FailClosing, Calling
  <2> QED BY <1>6, <2>1, CloseSteps
<1>7. CASE UNCHANGED vars
  <2>1. phase' = phase /\ next' = next /\ held' = held /\ known' = known /\ queues' = queues
    BY <1>7 DEF vars
  <2> QED BY <2>1 DEF IInv, TypeInv, StartInv, OpenInv, CloseInv, Backed, Started
<1>8. CASE Closed
  BY <1>7, <1>8 DEF Closed
<1> QED BY <1>1, <1>2, <1>3, <1>4, <1>5, <1>6, <1>7, <1>8 DEF Next

\* What the invariant says of the program: nothing is left, nothing is given back that
\* is not there, and what is queued has room.
LEMMA InvariantFrees == IInv => CloseFreesAll
<1> SUFFICES ASSUME IInv PROVE CloseFreesAll
  OBVIOUS
<1>1. phase = "closing" /\ next = <<>> => held = {}
  <2> SUFFICES ASSUME phase = "closing", next = <<>>, NEW r \in held PROVE FALSE
    OBVIOUS
  <2>1. GiveBack(next, held)
    BY DEF IInv, CloseInv
  <2>2. ToSet(next) = {}
    BY DEF ToSet
  <2> QED BY <2>1, <2>2 DEF GiveBack
<1>2. ASSUME Calling("drop") \/ Calling("free") PROVE On \in held
  <2>1. next # <<>> /\ Head(next).call \in {"drop", "free"} /\ On = Head(next).on
    BY <1>2 DEF Calling, On
  <2>2. CASE phase = "starting"
    <3>1. PICK n \in 0..(Count - 1) : Started(n) /\ Head(next) = NewDevice[n + 1]
      BY <2>1, <2>2, StartHead
    <3>2. On \in TakenBy(n) \ Gone(n)
      BY <2>1, <3>1, TakenNext
    <3> QED BY <3>1, <3>2 DEF Started
  <2>3. phase # "opening"
    <3> SUFFICES ASSUME phase = "opening" PROVE FALSE
      OBVIOUS
    <3>1. next \in Seq(OpenSteps)
      BY DEF IInv, OpenInv
    <3>2. Head(next) \in OpenSteps
      BY <2>1, <3>1, TailOnce
    <3> QED BY <2>1, <3>2 DEF OpenSteps
  <2>4. CASE phase = "closing"
    <3>1. GiveBack(next, held)
      BY <2>4 DEF IInv, CloseInv
    <3>2. Head(next) # AtOnce
      BY <2>1 DEF AtOnce, Call
    <3>3. PICK r \in held : Head(next) = Call("drop", r)
      BY <2>1, <3>1, <3>2, GiveBackOne
    <3> QED BY <2>1, <3>3 DEF Call
  <2> QED BY <2>2, <2>3, <2>4 DEF IInv, TypeInv
<1>3. ASSUME NEW k \in Shards, NEW i \in DOMAIN queues[k]
      PROVE  /\ queues[k][i].b <= PerStream
             /\ {Of(k, name) : name \in ToSet(DeviceBuffers) \cup ToSet(HostBuffers)} \subseteq held
             /\ \A level \in DOMAIN Levels : Scratch(k, level) \in held
             /\ {Whole(name) : name \in CardTables \ {"bases"}} \subseteq held
  <2>1. queues[k] \in Seq(Operations) /\ queues[k] # <<>>
    BY DEF IInv, TypeInv
  <2>2. queues[k][i].b \in 0..PerStream
    <3>1. queues[k][i] \in Operations
      BY <2>1
    <3> QED BY <3>1 DEF Operations
  <2>3. PerStream \in Int
    BY DeviceAssumption DEF PerStream, CeilDiv
  <2>4. Lasting \subseteq held
    BY <2>1 DEF IInv, Backed
  <2>5. \A r \in Parts : r \in Lasting
    BY NamesDiffer DEF Lasting, Everything, Passing
  <2>6. {Of(k, name) : name \in ToSet(DeviceBuffers) \cup ToSet(HostBuffers)} \subseteq held
    BY <2>4, <2>5 DEF Parts, PartsOf, Buffers
  <2>7. \A level \in DOMAIN Levels : Scratch(k, level) \in held
    BY <2>4, <2>5 DEF Parts, PartsOf
  <2>8. \A name \in CardTables \ {"bases"} : Whole(name) \in Lasting
    <3> TAKE name \in CardTables \ {"bases"}
    <3>1. Whole(name) \in Everything
      BY DEF Everything, Wholes
    <3>2. name # "bases" /\ name # "program"
      BY DEF CardTables
    <3>3. Whole(name) \notin Passing
      BY <3>2, NamesDiffer DEF Passing
    <3> QED BY <3>1, <3>3 DEF Lasting
  <2> QED BY <2>2, <2>3, <2>4, <2>6, <2>7, <2>8
<1>4. ASSUME NEW i \in DOMAIN queues[Default] PROVE Whole(queues[Default][i]) \in held
  <2>1. queues[Default] # <<>>
    OBVIOUS
  <2>2. PICK name \in CardTables : queues[Default] = <<name>> /\ Whole(name) \in held
    BY <2>1 DEF IInv, Backed
  <2>3. i = 1 /\ queues[Default][1] = name
    BY <2>2
  <2> QED BY <2>2, <2>3
<1> QED BY <1>1, <1>2, <1>3, <1>4 DEF CloseFreesAll

\* device.go:36, :168, :232: whichever call of newDevice or of an open fails, on any
\* number of streams and for batches of any size, close gives back all that was taken,
\* each once and never what is not there, and until then every queued operation has
\* its buffers, with room for its jobs, and the tables it reads.
THEOREM CloseFrees == Spec => []CloseFreesAll
<1>1. Init => IInv
  BY InitHolds
<1>2. IInv /\ [Next]_vars => IInv'
  BY StepKeeps
<1>3. IInv => CloseFreesAll
  BY InvariantFrees
<1> QED BY <1>1, <1>2, <1>3, PTL DEF Spec
=============================================================================
