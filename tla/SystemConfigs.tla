--------------------------- MODULE SystemConfigs ---------------------------
(***************************************************************************)
(* The memory-management knobs that scripts/common.sh writes and the       *)
(* functions that write them.  The effect of a knob is the kernel's        *)
(* business; here a knob is a name with the last value written to it.  A   *)
(* configuration name is the sequence of its parts, "TRIDENT-F" being      *)
(* <<"TRIDENT", "F">>, and the shell's patterns are searches in it.        *)
(***************************************************************************)
EXTENDS Integers, SequencesExt

Knobs == {"enabled", "enabled_1gb", "defrag", "enabled_pmd", "enabled_pud",
          "collapse_pmd", "collapse_pud", "compaction_smart", "retries",
          "pages_to_scan", "via_hypercall", "max_cpu", "pool_2mb", "pool_1gb"}

\* Just booted: each knob has its kernel default.
BootKnobs == [x \in Knobs |-> "boot"]

\* echo v | sudo tee knob, for several knobs.
Write(k, new) == [x \in Knobs |-> IF x \in DOMAIN new THEN new[x] ELSE k[x]]

-----------------------------------------------------------------------------
\* Without the reset of the knob that only setup_tridentpv_configs sets.
TridentKeepsHypercall(k) ==
  Write(k, [enabled |-> "always", defrag |-> "1", enabled_pmd |-> "1", enabled_pud |-> "1",
            collapse_pmd |-> "1", collapse_pud |-> "1", compaction_smart |-> "1",
            retries |-> "5", pages_to_scan |-> "2097152", max_cpu |-> "0"])

setup_trident_configs(k) ==
  Write(k, [enabled |-> "always", defrag |-> "1", enabled_pmd |-> "1", enabled_pud |-> "1",
            collapse_pmd |-> "1", collapse_pud |-> "1", compaction_smart |-> "1",
            retries |-> "5", pages_to_scan |-> "2097152", via_hypercall |-> "0",
            max_cpu |-> "0"])

setup_trident_nosmart_configs(k) ==
  Write(setup_trident_configs(k), [compaction_smart |-> "0", retries |-> "1"])

setup_trident_1gbonly_configs(k) ==
  Write(setup_trident_configs(k), [enabled_pmd |-> "0", collapse_pmd |-> "0"])

setup_tridentpv_configs(k) ==
  Write(setup_trident_configs(k), [via_hypercall |-> "1", max_cpu |-> "10"])

setup_2mbthp_configs(k) ==
  Write(k, [enabled |-> "always", enabled_1gb |-> "never", defrag |-> "1",
            enabled_pmd |-> "1", enabled_pud |-> "0", collapse_pmd |-> "1",
            collapse_pud |-> "0", compaction_smart |-> "0", pages_to_scan |-> "4096"])

setup_4kb_configs(k) ==
  Write(k, [enabled |-> "never", enabled_1gb |-> "never", defrag |-> "0",
            enabled_pmd |-> "0", enabled_pud |-> "0", collapse_pmd |-> "0",
            collapse_pud |-> "0", compaction_smart |-> "0", pages_to_scan |-> "4096"])

cleanup_system_configs(k) ==
  Write(k, [pool_2mb |-> "0", pool_1gb |-> "0", max_cpu |-> "0"])

-----------------------------------------------------------------------------
\* [[ $CONFIG = *AB* ]]: the parts A and B side by side.
Has(config, parts) ==
  \E i \in 1 .. Len(config) - Len(parts) + 1 : SubSeq(config, i, i + Len(parts) - 1) = parts

\* [[ $CONFIG = *A*B* ]]: A and, later, B.
HasInOrder(config, a, b) ==
  \E i, j \in 1 .. Len(config) : i < j /\ config[i] = a /\ config[j] = b

\* The chain of tests in prepare_system_configs.
Mode(config) ==
  IF Has(config, <<"2MB">>) \/ Has(config, <<"HAWKEYE">>) \/ Has(config, <<"1GB", "HUGE">>)
  THEN "2mbthp"
  ELSE IF config = <<"TRIDENT">> THEN "trident"
  ELSE IF Has(config, <<"TRIDENT", "NC">>) THEN "trident_nosmart"
  ELSE IF Has(config, <<"TRIDENT", "1G">>) THEN "trident_1gbonly"
  ELSE IF HasInOrder(config, "TRIDENT", "PV") THEN "tridentpv"
  ELSE "4kb"

Setup(mode, k) ==
  CASE mode = "2mbthp"          -> setup_2mbthp_configs(k)
    [] mode = "trident"         -> setup_trident_configs(k)
    [] mode = "trident_nosmart" -> setup_trident_nosmart_configs(k)
    [] mode = "trident_1gbonly" -> setup_trident_1gbonly_configs(k)
    [] mode = "tridentpv"       -> setup_tridentpv_configs(k)
    [] mode = "4kb"             -> setup_4kb_configs(k)

\* adjust_hugetlb_pages: the shell variables HUGETLB_2MB_PAGES and
\* HUGETLB_1GB_PAGES, from what they are to what the benchmark needs.  Without
\* a benchmark, and for most of them, they stay as they are.
adjust_hugetlb_pages(pages, benchmark) ==
  CASE benchmark = "graph500"  -> [mb |-> "40000", gb |-> "80"]
    [] benchmark = "memcached" -> [mb |-> "15000", gb |-> "30"]
    [] OTHER -> pages

\* The reservation of the hugetlb pool, and the setup.
Reserve(config, pages, k) ==
  IF Has(config, <<"2MB", "HUGE">>) THEN Write(k, [pool_2mb |-> pages.mb])
  ELSE IF Has(config, <<"1GB", "HUGE">>) THEN Write(k, [pool_1gb |-> pages.gb])
  ELSE k

prepare_system_configs(config, pages, k) ==
  Setup(Mode(config), Reserve(config, pages, k))

\* The script configs.sh: the pool sizes it sets.
HugetlbPages   == [mb |-> "70000", gb |-> "140"]
VMHugetlbPages == [mb |-> "80000", gb |-> "160"]

reserve_kvm_hugetlb_pages(config, k) ==
  Reserve(config, VMHugetlbPages, cleanup_system_configs(k))

-----------------------------------------------------------------------------
(* compile_results.py: how a configuration is called in the report. *)

\* The list configs, in which a comma is missing after 1GBHUGE-1GBHUGE.
configs ==
  << <<"4KB">>, <<"2MB", "THP">>, <<"2MB", "HUGE">>, <<"1GB", "HUGE">>, <<"TRIDENT">>,
     <<"TRIDENT", "1G">>, <<"TRIDENT", "NC">>, <<"HAWKEYE">>, <<"2MB", "THP", "F">>,
     <<"TRIDENT", "F">>, <<"TRIDENT", "1G", "F">>, <<"TRIDENT", "NC", "F">>,
     <<"HAWKEYE", "F">>, <<"4KB", "4KB">>, <<"2MB", "THP", "2MB", "THP">>,
     <<"1GB", "HUGE", "1GB", "HUGE", "TRIDENT", "TRIDENT">>,
     <<"HAWKEYE", "HAWKEYE">>, <<"2MB", "THP", "2MB", "THP", "F">>,
     <<"TRIDENT", "TRIDENT", "F">>, <<"TRIDENT", "PV", "TRIDENT", "PV", "F">> >>

\* The list pretty_configs; a name for two machines is the pair of the parts.
pretty_configs ==
  << <<"4KB">>, <<"2MB-THP">>, <<"2MB-HUGE">>, <<"1GB-HUGE">>, <<"Trident">>,
     <<"Trident-1G">>, <<"Trident-NC">>, <<"HawkEye">>, <<"2MB-THP">>, <<"Trident">>,
     <<"Trident-1G">>, <<"Trident-NC">>, <<"HawkEye">>, <<"4KB", "4KB">>, <<"2MB", "2MB">>,
     <<"1GB", "1GB">>, <<"Trident", "Trident">>, <<"HawkEye", "HawkEye">>, <<"2MB", "2MB">>,
     <<"Trident", "Trident">>, <<"TridentPV", "TridentPV">> >>

pretty(config) ==
  IF Contains(configs, config)
  THEN pretty_configs[CHOOSE i \in 1 .. Len(configs) : configs[i] = config]
  ELSE config
=============================================================================
