----------------------------- MODULE GpuChoice -----------------------------
(* perfer_gpu (source/GpuOption/GpuOptionWin32.cpp): the adapter to compute  *)
(* on, among those that DXGI enumerates.                                     *)
(*                                                                           *)
(* An adapter is a record of what the system answers about it; a call that   *)
(* fails answers None.                                                       *)
EXTENDS Integers, Sequences

CONSTANTS
  None,
  Gib2,      \* 2 GiB, in the unit of memory
  DirectML   \* year, month and day that DirectML came with Windows 10 1903

\* DXGI_ADAPTER_DESC1 and the driver, of the adapter behind GetDesc1.
Fails(a, call) == a[call] = None

\* The instance id, which the display configuration has for the adapter's LUID.
adapter_instance_path(a) == a.path

\* {}: no year, month or day.
gpu_driver_date(a) == IF Fails(a, "date") THEN <<0, 0, 0>> ELSE a.date

\* UpperFilters, if they can be read, name the driver of a remote display.
is_indirect_display_adapter(a) == a.filters # None /\ "IndirectKmd" \in a.filters

Later(date) ==
  \/ date[1] < DirectML[1]
  \/ date[1] = DirectML[1] /\ date[2] < DirectML[2]
  \/ date[1] = DirectML[1] /\ date[2] = DirectML[2] /\ date[3] < DirectML[3]

\* The adapter stays in the loop up to available_gpus.emplace_back.
Available(a) ==
  /\ a # None
  /\ ~Fails(a, "memory")
  /\ ~a.software
  /\ ~(a.memory < Gib2)
  /\ ~Fails(a, "device")
  /\ adapter_instance_path(a) # None
  /\ ~Later(gpu_driver_date(a))
  /\ ~is_indirect_display_adapter(a)

rank(vendor_id) ==
  CASE vendor_id \in {"NVIDIA", "AMD"} -> 0
    [] vendor_id = "Intel" -> 1
    [] OTHER -> 2

\* Mutant: the larger rank first.
Less_Swapped(lhs, rhs) ==
  IF rank(lhs.vendor_id) # rank(rhs.vendor_id) THEN rank(lhs.vendor_id) < rank(rhs.vendor_id)
  ELSE lhs.memory < rhs.memory

\* The comparison of std::max_element.
Less(lhs, rhs) ==
  IF rank(lhs.vendor_id) # rank(rhs.vendor_id) THEN rank(lhs.vendor_id) > rank(rhs.vendor_id)
  ELSE lhs.memory < rhs.memory

\* The better of the best so far and the adapter at i.
Choose(adapters, best, i) ==
  IF Available(adapters[i]) /\ (best = None \/ Less(adapters[best], adapters[i])) THEN i ELSE best

\* The loop over EnumAdapters1 goes to the first index that is not found.
perfer_gpu(adapters) ==
  LET best[i \in 0..Len(adapters)] == IF i = 0 THEN None ELSE Choose(adapters, best[i - 1], i)
  IN  best[Len(adapters)]

-----------------------------------------------------------------------------
\* A hardware adapter that is known to be able to run DirectML.
Days(date) == date[1] * 372 + date[2] * 31 + date[3]
Usable(a) ==
  /\ a # None
  /\ None \notin {a.memory, a.device, a.path, a.date}
  /\ a.software = FALSE /\ a.memory >= Gib2 /\ Days(a.date) >= Days(DirectML)
  /\ (a.filters # None => a.filters \cap {"IndirectKmd"} = {})

\* Whichever adapters and calls fail, perfer_gpu answers the first of the best usable
\* ones, NVIDIA and AMD before Intel before others and then by memory, and none only
\* if there is none.
PicksBestGpu(adapters) ==
  LET usable == {i \in DOMAIN adapters : Usable(adapters[i])}
      Score(i) == CASE adapters[i].vendor_id \in {"NVIDIA", "AMD"} -> 2
                    [] adapters[i].vendor_id = "Intel" -> 1
                    [] OTHER -> 0
      Worse(i, j) == \/ Score(i) < Score(j)
                     \/ /\ Score(i) = Score(j)
                        /\ \/ adapters[i].memory < adapters[j].memory
                           \/ adapters[i].memory = adapters[j].memory /\ i > j
      best == perfer_gpu(adapters)
  IN  IF usable = {} THEN best = None
      ELSE best \in usable /\ \A i \in usable \ {best} : Worse(i, best)
=============================================================================
