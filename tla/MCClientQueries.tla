-------------------------- MODULE MCClientQueries --------------------------
(* ClientQueries on a small instance: three objects in pages of one or two. *)
EXTENDS ClientQueries

MCIds     == 1 .. 3
MCAsked   == {<< 2, 1, 3 >>, << 1, 1 >>}
MCShown   == {{}, {"show_owner", "show_previous_transaction"}, {"show_content"},
              {"show_effects", "show_events"}, {"show_effects", "show_object_changes"}}
MCFilters == {{}, {"sender"}, {"move_module", "time_range"}}
=============================================================================
