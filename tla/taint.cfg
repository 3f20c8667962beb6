\* Every cell whose taint logic is exact or errs on the safe side, on two data
\* wires of two bits and one control wire, with the default options and with
\* those that choose another logic.
SPECIFICATION Spec
CONSTANTS
    Width = 2
    Data = {d1, d2}
    Control = {c1}
    OptionChoices = {{}, {"-rtlift", "-precise-shiftx", "-imprecise-shl-sshl",
                          "-imprecise-shr-sshr", "-conjunctive-gates", "-conjunctive-neg",
                          "-conjunctive-mul", "-conjunctive-sub", "-conjunctive-mux", "-conjunctive-pmux"}}
    Logics = {"cellift_and", "cellift_or", "cellift_xor", "cellift_not", "cellift_mux",
              "cellift_add", "rtlift_add", "cellift_neg", "cellift_eq_ne", "cellift_ge",
              "cellift_gt", "cellift_le", "cellift_lt", "cellift_logic_not",
              "cellift_logic_and", "cellift_logic_or", "cellift_reduce_and",
              "cellift_reduce_xor", "cellift_shl_sshl_precise", "cellift_shr",
              "cellift_shift_shiftx_precise", "cellift_shl_sshl_imprecise",
              "cellift_shr_sshr_imprecise", "cellift_shiftx_imprecise",
              "cellift_pmux_small_cells", "conjunctive_one_input",
              "conjunctive_two_inputs", "conjunctive_three_inputs"}
    Flops = {"$dff", "$sdff", "$adff", "$dffe", "$sdffe", "$adffe", "$dlatch", "$sdffce",
             "$aldff", "$_DFF_", "$_DFF_R_", "$_SDFF_", "$_DFFE_", "$_DFFE_R_", "$_SDFFE_",
             "$_SDFFCE_", "$_DLATCH_"}
    AllUses = FALSE
SYMMETRY Swaps
INVARIANTS TaintTypeOK DifferencesAreTainted TaintIsExact
