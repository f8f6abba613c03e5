SPECIFICATION SettingsSpec
CONSTANTS
  MaxChanges = 3
  MaxSettingsFaults = 1
INVARIANTS
  LazyIsTable
  LeaveIsRow
