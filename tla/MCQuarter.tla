----------------------------- MODULE MCQuarter ------------------------------
(* A two-week plan, small uploads and quotas; see MCQuarter.cfg and MCQuarterWindow.cfg. *)
EXTENDS Quarter

Task(key, type, area, day, slot, minutes, times, from, to) ==
    [key |-> key, milestone |-> 2, task_type |-> type, area |-> area, day_hint |-> day,
     slot_hint |-> slot, duration_minutes |-> minutes, times_per_week |-> times,
     week_start |-> from, week_end |-> to]

Tree == <<[parent |-> 0, target_week |-> 1], [parent |-> 1, target_week |-> 0]>>
Plan(specs) == [duration_weeks |-> 2, milestones |-> Tree, tasks |-> specs]

Study(slot, minutes, times) ==
    Task(<<"task", 1>>, "session", "career", "any", slot, minutes, times, 0, 1)
Walk(area, day) == Task(<<"task", 2>>, "habit", area, day, "noon", 60, 2, 0, 0)
Rest == Task(<<"task", 3>>, "rest", "health", "weekend", "any", 30, 1, 1, 1)

MCAnswers ==
    {Plan(<<Study("noon", 60, 3), Walk("health", "sat"), Rest>>),
     Plan(<<Study("noon", 60, 1), Walk("career", "sat")>>),
     Plan(<<Study("any", 90, 3), Walk("health", "weekday")>>),
     Plan(<<Study("any", 45, 1)>>),
     Plan(<<Study("evening", 180, 2), Walk("career", "any"), Rest>>),
     Plan(<<Study("noon", 90, 1)>>),
     Plan(<<Task(<<"checkpoint", 2>>, "session", "health", "sun", "morning", 60, 1, 0, 0)>>),
     Plan(<<Task(<<"task", 1>>, "session", "career", "any", "noon", 60, 1, 0, 2)>>)}

Event(ref, day, from, to, all_day) ==
    [source_ref |-> ref, start_at |-> Day * day + from, end_at |-> Day * day + to,
     all_day |-> all_day]

MCEvents ==
    {Event(0, 0, 400, 715, FALSE), Event(1, 5, 725, 750, FALSE), Event(1, -9, 600, 660, FALSE),
     Event(0, 12, 0, 1440, TRUE), Event(0, 8, 430, 440, FALSE), Event(0, -13, 600, 700, FALSE)}

\* A commitment of the first day, and one of the second week.
MCUploads ==
    {<<>>} \cup {<<e>> : e \in MCEvents}
    \cup {<<Event(0, 8, 430, 440, FALSE), e>> : e \in MCEvents}

MCQuotas == {{}, {[drop_first |-> "health", weekly_minutes |-> 180]}}
=============================================================================
